---- MODULE Spec2Model ----
(***************************************************************************)
(* A model of zeddy's palette/style engine: the palette resolver           *)
(* (src/color/palette.rs), the palette generator (PaletteGenerator), the   *)
(* modifier arithmetic (src/color/color.rs), Theme::merge                   *)
(* (src/schema/kdl.rs) and the forward compiler generate_json              *)
(* (src/generate/json.rs).                                                 *)
(*                                                                         *)
(* Conventions.  An Option<T> is a sequence of length at most one          *)
(* (None == <<>>, Some(x) == <<x>>); a Rust enum is a record with a "kind" *)
(* field whose other fields are filled with a default when unused, so that *)
(* all values of one type are comparable.  A HexColor([u8; 4]) is the      *)
(* tuple <<r, g, b, a>>.  A String is the sequence of its characters.      *)
(* A HashMap is a function; the order in which a                           *)
(* HashMap is iterated is not fixed by the code, so every iteration over   *)
(* one takes its entries in any order.                                     *)
(***************************************************************************)
EXTENDS Integers, Sequences, FiniteSets, TLC

VARIABLES
    \* ---- Palette::resolve / resolve_color (src/color/palette.rs) ----
    palette,        \* Palette.colors: name -> Color
    resolutions,    \* partial_resolutions / resolutions: name -> HexColor
    deps,           \* deps: Vec<&str>
    stack,          \* the active resolve_color calls, innermost last
    retval,         \* Option<HexColor>: the value the last call returned
    todo,           \* entries `for (name, color) in &self.colors` has not taken yet
    top,            \* Option<name>: the entry the loop of resolve is at
    result,         \* Option<Result>: what resolve returned
    pc,             \* where the program is
    run,            \* which call of resolve on this palette is running (1 or 2)
    first,          \* Option<Result>: what the first call of resolve returned
    \* ---- PaletteGenerator (src/color/palette.rs) ----
    rgb_to_name,    \* BiMap<[u8; 3], String>: a set of <<rgb, name>> pairs
    lastCall,       \* Option<[op, color]>: the last call on the generator
    returned,       \* Option<Color>: what the last lookup returned
    calls,          \* number of calls made on the generator
    \* ---- generate_json (src/generate/json.rs) ----
    family,         \* the argument: [themes, common] (its palette is `palette`)
    themes,         \* `mut themes`: Vec<Theme>
    common,         \* `common`: Option<Theme>
    json_themes,    \* base_theme_file.themes: Vec<JsonTheme>
    base_json_theme,\* Option<JsonTheme>: the theme being built
    ti,             \* number of themes the loop of line 31 has finished
    wi,             \* number of (action, target) pairs of the theme applied so far
    json,           \* Option<Result>: what generate_json returned
    \* ---- generate_json_cmd / install_cmd (src/cli/commands.rs) ----
    outfile,        \* Option<content>: the file at `outfile`, None when absent
    installfile,    \* Option<content>: the file at `installfile`
    before,         \* the two files as they were when the command started
    cmd,            \* Option<"Ok" | "Err">: what the command returned
    \* ---- generate_kdl (src/generate/kdl.rs) and Theme::extract_common ----
    flat,           \* theme_family.themes: Vec<JsonTheme>, the argument
    kpc,            \* where generate_kdl is
    fi,             \* number of themes the running loop has finished
    kthemes,        \* base_theme.themes: Vec<Theme>
    kcommon,        \* base_theme.common: Option<Theme>
    translated,     \* base_theme.themes as they were when line 198 was reached
    kpalette,       \* base_theme.palette as a map: name -> HexColor
    \* ---- watch_cmd (src/cli/commands.rs) ----
    queue,          \* the events in the channel (tx, rx), oldest first
    wpc,            \* where the thread of watch_cmd is
    sent,           \* number of events the watcher has sent
    active,         \* number of install_cmd runs in progress
    runs,           \* number of install_cmd runs started
    removed         \* a Remove event was taken from the channel

\* the resolver's variables without pc
resolveData == <<palette, resolutions, deps, stack, retval, todo, top, result, run, first>>
resolveVars == <<resolveData, pc>>
generatorVars == <<rgb_to_name, lastCall, returned, calls>>
compileVars == <<family, themes, common, json_themes, base_json_theme, ti, wi, json>>
cliVars == <<outfile, installfile, before, cmd>>
kdlVars == <<flat, kpc, fi, kthemes, kcommon, translated, kpalette>>
watchVars == <<queue, wpc, sent, active, runs, removed>>

\* what the steps of one component leave alone
notResolver == <<generatorVars, compileVars, cliVars, kdlVars, watchVars>>
notGenerator == <<resolveVars, compileVars, cliVars, kdlVars, watchVars>>
notCompiler == <<generatorVars, cliVars, kdlVars, watchVars>>
notCli == <<resolveData, generatorVars, compileVars, kdlVars, watchVars>>
notKdl == <<resolveVars, compileVars, cliVars, watchVars, lastCall, returned, calls>>
notWatch == <<resolveVars, generatorVars, compileVars, kdlVars, before>>

vars == <<resolveVars, generatorVars, compileVars, cliVars, kdlVars, watchVars>>

----------------------------------------------------------------------------
(* Bounds of the model *)

\* number of names a palette has
MaxNames == 3
\* number of feed and lookup calls made on one generator
MaxCalls == 4
\* number of modifiers a theme of a compiled family has
MaxModifiers == 2
\* number of themes a flat family given to generate_kdl has
MaxThemes == 3
\* number of events the file watcher sends while watch_cmd runs
MaxEvents == 4
\* number of players of a theme given to extract_common
MaxPlayers == 3

----------------------------------------------------------------------------
(* Option and small helpers *)

None == <<>>
Some(x) == <<x>>
IsSome(o) == o # <<>>
Unwrap(o) == o[1]

Range(s) == {s[i] : i \in DOMAIN s}

Min(a, b) == IF a <= b THEN a ELSE b
Max(S) == CHOOSE x \in S : \A y \in S : y <= x

\* HashMap::insert, and the empty HashMap
MapInsert(m, k, v) == [x \in DOMAIN m \cup {k} |-> IF x = k THEN v ELSE m[x]]
EmptyMap == [x \in {} |-> 0]

----------------------------------------------------------------------------
(* src/color/color.rs *)

\* ColorModifiers::default(): every adjustment absent.
NoModifiers ==
    [alpha |-> None, lighten |-> None, darken |-> None,
     saturate |-> None, desaturate |-> None, hue_shift |-> None]

\* BaseColorKind::Hex(h) and BaseColorKind::PaletteReference(n).
Hex(h) == [kind |-> "Hex", hex |-> h, name |-> <<>>]
PaletteReference(n) == [kind |-> "PaletteReference", hex |-> <<0, 0, 0, 0>>, name |-> n]

\* The f32 -> u8 conversion of a channel: round to nearest (ties to even), then
\* saturate into 0..255.  The value is the rational num / den, num >= 0, den > 0.
RoundToU8(num, den) ==
    LET q == num \div den
        r == num % den
        n == IF 2 * r > den \/ (2 * r = den /\ q % 2 = 1) THEN q + 1 ELSE q
    IN  Min(n, 255)

\* `lcha.alpha *= alpha` followed by the conversion back to u8: the channel a
\* stands for a / 255, the factor f is the rational f[1] / f[2].
ScaleAlpha(a, f) == RoundToU8(a * f[1], f[2])

\* HexColor::apply_modifiers.  The colors and modifiers of this model carry
\* no lighten, darken, saturate, desaturate or hue_shift (every input draws them
\* absent), so the Lch coordinates are not changed between the two
\* conversions and only the alpha step acts.
apply_modifiers(self, modifiers) ==
    LET a == IF IsSome(modifiers.alpha)
             THEN ScaleAlpha(self[4], Unwrap(modifiers.alpha))
             ELSE self[4]
    IN  <<self[1], self[2], self[3], a>>

----------------------------------------------------------------------------
(* Inputs of the resolver *)

NameSeq == << <<"a">>, <<"b">>, <<"c">>, <<"d">>, <<"e">> >>
Names == {NameSeq[i] : i \in 1..MaxNames}
\* names no palette of the model has as a key
Dangling == { <<"n", "o", "k", "e", "y">>, <<"g", "o", "n", "e">> }

Third == <<1, 3>>
Literals == {<<255, 0, 0, 255>>}
ModifierSet == {NoModifiers, [NoModifiers EXCEPT !.alpha = Some(Third)]}
BaseSet == {Hex(h) : h \in Literals} \cup {PaletteReference(n) : n \in Names \cup Dangling}
ColorSet == [base : BaseSet, modifiers : ModifierSet]

----------------------------------------------------------------------------
(* PaletteGenerator, src/color/palette.rs lines 150-239 *)

\* The BiMap operations feed and lookup use.
ContainsLeft(m, l) == \E p \in m : p[1] = l
GetByLeft(m, l) == IF \E p \in m : p[1] = l THEN Some((CHOOSE p \in m : p[1] = l)[2]) ELSE None
GetByRight(m, r) == IF \E p \in m : p[2] = r THEN Some((CHOOSE p \in m : p[2] = r)[1]) ELSE None
\* BiMap::insert: a pair that holds the left or the right value is overwritten.
BiMapInsert(m, l, r) == {p \in m : p[1] # l /\ p[2] # r} \cup {<<l, r>>}

\* str::to_lowercase, str::trim and str::replace(' ', "-") on the characters
\* the names of the model are written with.
UpperCase == <<"A", "B", "C", "D", "E", "F", "G", "H", "I", "J", "K", "L", "M",
               "N", "O", "P", "Q", "R", "S", "T", "U", "V", "W", "X", "Y", "Z">>
LowerCase == <<"a", "b", "c", "d", "e", "f", "g", "h", "i", "j", "k", "l", "m",
               "n", "o", "p", "q", "r", "s", "t", "u", "v", "w", "x", "y", "z">>
ToLowerChar(c) ==
    IF \E i \in DOMAIN UpperCase : UpperCase[i] = c
    THEN LowerCase[CHOOSE i \in DOMAIN UpperCase : UpperCase[i] = c]
    ELSE c
ToLowercase(str) == [i \in DOMAIN str |-> ToLowerChar(str[i])]
RECURSIVE TrimStart(_)
TrimStart(str) == IF str # <<>> /\ str[1] = " " THEN TrimStart(Tail(str)) ELSE str
RECURSIVE TrimEnd(_)
TrimEnd(str) ==
    IF str # <<>> /\ str[Len(str)] = " " THEN TrimEnd(SubSeq(str, 1, Len(str) - 1)) ELSE str
Trim(str) == TrimEnd(TrimStart(str))
ReplaceSpaces(str) == [i \in DOMAIN str |-> IF str[i] = " " THEN "-" ELSE str[i]]

\* The decimal digits of a positive integer, as `{idx}` formats it.
RECURSIVE Decimal(_)
Decimal(n) ==
    LET digit == <<"0", "1", "2", "3", "4", "5", "6", "7", "8", "9">>[(n % 10) + 1]
    IN  IF n < 10 THEN <<digit>> ELSE Append(Decimal(n \div 10), digit)

\* The colors fed and looked up: four RGB triples, opaque or not.
Red1 == <<255, 0, 0>>
Red2 == <<254, 0, 0>>
Red3 == <<250, 0, 0>>
Gray == <<105, 105, 105>>
RgbSet == {Red1, Red2, Red3, Gray}
AlphaSet == {255, 128}
HexColors == {<<rgb[1], rgb[2], rgb[3], a>> : rgb \in RgbSet, a \in AlphaSet}
Rgb(color) == <<color[1], color[2], color[3]>>

\* ColorNamer::name_hex_color with Colors::all(): the name of the nearest
\* color of the crate's tables.  The function is many-to-one; the model gives it
\* on RgbSet, with two triples that share a name up to case and
\* white space, a name with a space inside, and a name that reads like the
\* first disambiguation of another.
NameHexColor(rgb) ==
    CASE rgb = Red1 -> <<"R", "e", "d">>
      [] rgb = Red2 -> <<"R", "E", "D", " ">>
      [] rgb = Red3 -> <<"R", "e", "d", " ", "1">>
      [] rgb = <<0, 0, 255>> -> <<"B", "l", "u", "e">>
      [] OTHER -> <<"D", "i", "m", " ", "G", "r", "a", "y">>

\* feed, lines 189-195.
BaseName(rgb) == ReplaceSpaces(Trim(ToLowercase(NameHexColor(rgb))))

\* feed, lines 196-206: the while loop, entered with name2 and idx.
RECURSIVE Disambiguate(_, _, _, _, _)
Disambiguate(m, rgb, name, name2, idx) ==
    LET right == GetByRight(m, name2)
    IN  IF IsSome(right) /\ Unwrap(right) # rgb
        THEN Disambiguate(m, rgb, name, name \o <<"-">> \o Decimal(idx), idx + 1)
        ELSE name2

\* Mutant of FeedMap: no disambiguation, and the pair is added without
\* overwriting the pair that holds the name.
FeedMapNoDisambiguation(m, color) ==
    IF ContainsLeft(m, Rgb(color)) THEN m ELSE m \cup {<<Rgb(color), BaseName(Rgb(color))>>}

\* Mutant of FeedMap: the name is taken even when another triple holds it.
FeedMapTakesName(m, color) ==
    IF ContainsLeft(m, Rgb(color)) THEN m ELSE BiMapInsert(m, Rgb(color), BaseName(Rgb(color)))

\* feed, lines 180-208: rgb_to_name after feed(color).
FeedMap(m, color) ==
    LET rgb == Rgb(color)
        name == BaseName(rgb)
    IN  IF ContainsLeft(m, rgb)
        THEN m
        ELSE BiMapInsert(m, rgb, Disambiguate(m, rgb, name, name, 1))

\* alpha_to_modifier, lines 150-152: f32::from(alpha) / 255.0 as a rational.
alpha_to_modifier(alpha) == <<alpha, 255>>

\* Mutant of GeneratorLookup: the alpha modifier is set for opaque colors too.
GeneratorLookupAlphaAlways(m, color) ==
    LET name == GetByLeft(m, Rgb(color))
    IN  IF IsSome(name)
        THEN [base |-> PaletteReference(Unwrap(name)),
              modifiers |-> [NoModifiers EXCEPT !.alpha = Some(alpha_to_modifier(color[4]))]]
        ELSE [base |-> Hex(color), modifiers |-> NoModifiers]

\* PaletteGenerator::lookup, lines 210-229.
GeneratorLookup(m, color) ==
    LET name == GetByLeft(m, Rgb(color))
        alpha == IF color[4] # 255 THEN Some(alpha_to_modifier(color[4])) ELSE None
    IN  IF IsSome(name)
        THEN [base |-> PaletteReference(Unwrap(name)),
              modifiers |-> [NoModifiers EXCEPT !.alpha = alpha]]
        ELSE [base |-> Hex(color), modifiers |-> NoModifiers]

\* PaletteGenerator::new, lines 172-177.
GeneratorNew ==
    /\ rgb_to_name = {}
    /\ lastCall = None
    /\ returned = None
    /\ calls = 0

\* PaletteGenerator::feed(color).
Feed(color) ==
    /\ calls < MaxCalls
    /\ rgb_to_name' = FeedMap(rgb_to_name, color)
    /\ lastCall' = Some([op |-> "feed", color |-> color])
    /\ returned' = None
    /\ calls' = calls + 1
    /\ UNCHANGED notGenerator

\* PaletteGenerator::lookup(color).
Lookup(color) ==
    /\ calls < MaxCalls
    /\ returned' = Some(GeneratorLookup(rgb_to_name, color))
    /\ lastCall' = Some([op |-> "lookup", color |-> color])
    /\ calls' = calls + 1
    /\ UNCHANGED rgb_to_name
    /\ UNCHANGED notGenerator

\* The resolver is not running while the generator is used.
ResolverIdle ==
    /\ palette = EmptyMap
    /\ resolutions = EmptyMap
    /\ deps = <<>>
    /\ stack = <<>>
    /\ retval = None
    /\ todo = {}
    /\ top = None
    /\ result = None
    /\ pc = "idle"
    /\ run = 1
    /\ first = None

\* generate_json is not running.
CompilerIdle ==
    /\ family = [themes |-> <<>>, common |-> None]
    /\ themes = <<>>
    /\ common = None
    /\ json_themes = <<>>
    /\ base_json_theme = None
    /\ ti = 0
    /\ wi = 0
    /\ json = None

\* No command of the CLI is running.
CliIdle ==
    /\ outfile = None
    /\ installfile = None
    /\ before = <<None, None>>
    /\ cmd = None

\* generate_kdl is not running.
KdlIdle ==
    /\ flat = <<>>
    /\ kpc = "idle"
    /\ fi = 0
    /\ kthemes = <<>>
    /\ kcommon = None
    /\ translated = <<>>
    /\ kpalette = EmptyMap

\* watch_cmd is not running.
WatchIdle ==
    /\ queue = <<>>
    /\ wpc = "idle"
    /\ sent = 0
    /\ active = 0
    /\ runs = 0
    /\ removed = FALSE

InitGenerator ==
    GeneratorNew /\ ResolverIdle /\ CompilerIdle /\ CliIdle /\ KdlIdle /\ WatchIdle

NextGenerator ==
    \/ \E color \in HexColors : Feed(color)
    \/ \E color \in HexColors : Lookup(color)

SpecGenerator == InitGenerator /\ [][NextGenerator]_vars

----------------------------------------------------------------------------
(* Palette::resolve and Palette::resolve_color, src/color/palette.rs *)

\* anyhow::Result of resolve: Ok(ResolvedPalette) or one of the three reports.
Ok(colors) == [kind |-> "Ok", colors |-> colors, name |-> <<>>, chain |-> <<>>]
ErrSelf(n) == [kind |-> "SelfCycle", colors |-> <<>>, name |-> n, chain |-> <<>>]
ErrChain(c) == [kind |-> "Chain", colors |-> <<>>, name |-> <<>>, chain |-> c]
ErrMissing(n) == [kind |-> "Missing", colors |-> <<>>, name |-> n, chain |-> <<>>]

\* Mutant of FindDep: only the name pushed last is compared.
FindDepLastOnly(d, name) ==
    IF d # <<>> /\ d[Len(d)] = name THEN Len(d) ELSE 0

\* Mutant of FindDep: the comparison is inverted, the first name of deps that
\* differs from the name is found.
FindDepInverted(d, name) ==
    IF \E i \in DOMAIN d : d[i] # name
    THEN CHOOSE i \in DOMAIN d : d[i] # name /\ \A j \in 1..(i - 1) : d[j] = name
    ELSE 0

\* deps.iter().enumerate().find_map(|x| (*x.1 == name).then_some(x.0)), 1-based;
\* 0 when the name is not in deps.
FindDep(d, name) ==
    IF \E i \in DOMAIN d : d[i] = name
    THEN CHOOSE i \in DOMAIN d : d[i] = name /\ \A j \in 1..(i - 1) : d[j] # name
    ELSE 0

\* Mutant of CycleReport: the length test reads the whole of deps instead of
\* the slice deps[idx..].
CycleReportWholeLen(d, idx, name) ==
    IF Len(d) <= 1 THEN ErrSelf(name) ELSE ErrChain(Append(SubSeq(d, idx, Len(d)), name))

\* Mutant of CycleReport: the message lists the whole of deps instead of the
\* slice deps[idx..].
CycleReportWholeList(d, idx, name) ==
    IF Len(SubSeq(d, idx, Len(d))) <= 1 THEN ErrSelf(name) ELSE ErrChain(Append(d, name))

\* The report of lines 69-90: deps[idx..] of length <= 1 is the self report,
\* otherwise the message lists deps[idx..] and then name again.
CycleReport(d, idx, name) ==
    LET tail == SubSeq(d, idx, Len(d))
    IN  IF Len(tail) <= 1 THEN ErrSelf(name) ELSE ErrChain(Append(tail, name))

\* Mutant of MissingReport: the message names the referencing entry.
MissingReportNamesEntry(name, reference) == ErrMissing(name)

\* The error of line 97: `could not find color {reference} in the palette`.
MissingReport(name, reference) == ErrMissing(reference)

\* Mutant of Memoized: the unmodified base is memoised.
MemoizedUnmodified(resolved, modifiers) == resolved

\* Mutant of Memoized: the entry's modifiers are applied a second time.
MemoizedTwice(resolved, modifiers) ==
    apply_modifiers(apply_modifiers(resolved, modifiers), modifiers)

\* The value lines 102-103 insert into partial_resolutions.
Memoized(resolved, modifiers) == apply_modifiers(resolved, modifiers)

Callee == stack[Len(stack)]
Pop(s) == SubSeq(s, 1, Len(s) - 1)

\* resolve, lines 107-110: the loop takes the next entry and calls resolve_color.
ResolveNext ==
    /\ pc = "loop"
    /\ \E n \in todo :
        /\ todo' = todo \ {n}
        /\ top' = Some(n)
        /\ stack' = <<n>>
    /\ pc' = "call"
    /\ UNCHANGED <<palette, resolutions, deps, retval, result, run, first>>
    /\ UNCHANGED notResolver

\* resolve_color, lines 59-62: the name is already resolved.
EnterMemo ==
    /\ pc = "call"
    /\ Callee \in DOMAIN resolutions
    /\ retval' = Some(resolutions[Callee])
    /\ stack' = Pop(stack)
    /\ pc' = "ret"
    /\ UNCHANGED <<palette, resolutions, deps, todo, top, result, run, first>>
    /\ UNCHANGED notResolver

\* resolve_color, lines 64-91: the name is on the dependency stack; the error
\* is passed up by every `?` and resolve returns it.
EnterCycle ==
    /\ pc = "call"
    /\ Callee \notin DOMAIN resolutions
    /\ FindDep(deps, Callee) # 0
    /\ result' = Some(CycleReport(deps, FindDep(deps, Callee), Callee))
    /\ pc' = "failed"
    /\ UNCHANGED <<palette, resolutions, deps, stack, retval, todo, top, run, first>>
    /\ UNCHANGED notResolver

\* resolve_color, lines 92-94 and 102-104: a literal base.
EnterHex ==
    /\ pc = "call"
    /\ Callee \notin DOMAIN resolutions
    /\ FindDep(deps, Callee) = 0
    /\ palette[Callee].base.kind = "Hex"
    /\ LET modified == apply_modifiers(palette[Callee].base.hex, palette[Callee].modifiers)
       IN  /\ resolutions' = MapInsert(resolutions, Callee,
                               Memoized(palette[Callee].base.hex, palette[Callee].modifiers))
           /\ retval' = Some(modified)
    /\ deps' = Append(deps, Callee)
    /\ stack' = Pop(stack)
    /\ pc' = "ret"
    /\ UNCHANGED <<palette, todo, top, result, run, first>>
    /\ UNCHANGED notResolver

\* resolve_color, lines 92-98: a reference to a name the palette does not have.
EnterMissing ==
    /\ pc = "call"
    /\ Callee \notin DOMAIN resolutions
    /\ FindDep(deps, Callee) = 0
    /\ palette[Callee].base.kind = "PaletteReference"
    /\ palette[Callee].base.name \notin DOMAIN palette
    /\ deps' = Append(deps, Callee)
    /\ result' = Some(MissingReport(Callee, palette[Callee].base.name))
    /\ pc' = "failed"
    /\ UNCHANGED <<palette, resolutions, stack, retval, todo, top, run, first>>
    /\ UNCHANGED notResolver

\* resolve_color, lines 92-99: a reference to an entry; the recursive call.
EnterReference ==
    /\ pc = "call"
    /\ Callee \notin DOMAIN resolutions
    /\ FindDep(deps, Callee) = 0
    /\ palette[Callee].base.kind = "PaletteReference"
    /\ palette[Callee].base.name \in DOMAIN palette
    /\ deps' = Append(deps, Callee)
    /\ stack' = Append(stack, palette[Callee].base.name)
    /\ UNCHANGED <<palette, resolutions, retval, todo, top, result, pc, run, first>>
    /\ UNCHANGED notResolver

\* resolve_color, lines 99-104: the recursive call returned to its caller.
ReturnToCaller ==
    /\ pc = "ret"
    /\ stack # <<>>
    /\ LET modified == apply_modifiers(Unwrap(retval), palette[Callee].modifiers)
       IN  /\ resolutions' = MapInsert(resolutions, Callee,
                               Memoized(Unwrap(retval), palette[Callee].modifiers))
           /\ retval' = Some(modified)
    /\ stack' = Pop(stack)
    /\ UNCHANGED <<palette, deps, todo, top, result, pc, run, first>>
    /\ UNCHANGED notResolver

\* resolve, lines 110-111: the top-level call returned Ok; deps.clear().
ReturnToLoop ==
    /\ pc = "ret"
    /\ stack = <<>>
    /\ deps' = <<>>
    /\ retval' = None
    /\ pc' = "loop"
    /\ UNCHANGED <<palette, resolutions, stack, todo, top, result, run, first>>
    /\ UNCHANGED notResolver

\* resolve, lines 113-115: every entry is resolved.
ResolveOk ==
    /\ pc = "loop"
    /\ todo = {}
    /\ result' = Some(Ok(resolutions))
    /\ pc' = "resolved"
    /\ UNCHANGED <<palette, resolutions, deps, stack, retval, todo, top, run, first>>
    /\ UNCHANGED notResolver

\* A second call of resolve on the same palette, after a first call that
\* returned Ok (resolve takes self, the caller resolves a clone): fresh
\* resolutions and deps, lines 107-108.
ResolveAgain ==
    /\ pc = "resolved"
    /\ run = 1
    /\ run' = 2
    /\ first' = result
    /\ resolutions' = EmptyMap
    /\ deps' = <<>>
    /\ stack' = <<>>
    /\ retval' = None
    /\ todo' = DOMAIN palette
    /\ top' = None
    /\ result' = None
    /\ pc' = "loop"
    /\ UNCHANGED palette
    /\ UNCHANGED notResolver

InitResolve ==
    /\ palette \in [Names -> ColorSet]
    /\ resolutions = EmptyMap
    /\ deps = <<>>
    /\ stack = <<>>
    /\ retval = None
    /\ todo = DOMAIN palette
    /\ top = None
    /\ result = None
    /\ pc = "loop"
    /\ run = 1
    /\ first = None
    /\ GeneratorNew
    /\ CompilerIdle
    /\ CliIdle
    /\ KdlIdle
    /\ WatchIdle

NextResolve ==
    \/ ResolveNext
    \/ EnterMemo
    \/ EnterCycle
    \/ EnterHex
    \/ EnterMissing
    \/ EnterReference
    \/ ReturnToCaller
    \/ ReturnToLoop
    \/ ResolveOk
    \/ ResolveAgain

SpecResolve == InitResolve /\ [][NextResolve]_vars

\* The program is one thread that always takes its next step.
SpecResolveFair == SpecResolve /\ WF_vars(NextResolve)

----------------------------------------------------------------------------
(* The authored and the flat schema, src/schema/kdl.rs and src/schema/json.rs *)

\* ModifierPath::Style(path) and ModifierPath::Syntax(scope).
Style(path) == [kind |-> "Style", path |-> path]
Syntax(path) == [kind |-> "Syntax", path |-> path]

\* Action::default(): no edit.
NoAction == [color |-> None, background |-> None, font_weight |-> None, font_style |-> None]

\* StyleEntry::Syntax(map), StyleEntry::Players(players), StyleEntry::Normal(color).
SyntaxEntry(map) == [kind |-> "Syntax", syntax |-> map, players |-> <<>>, normal |-> None]
PlayersEntry(players) == [kind |-> "Players", syntax |-> EmptyMap, players |-> players, normal |-> None]
NormalEntry(color) == [kind |-> "Normal", syntax |-> EmptyMap, players |-> <<>>, normal |-> color]

\* The Syntax that or_insert_with builds, src/generate/json.rs lines 94-99.
NewSyntax == [color |-> None, background |-> None, font_weight |-> None, font_style |-> None]

\* The keys "players" and "syntax" of JsonTheme.style and the prefix "player".
PlayersKey == <<"p", "l", "a", "y", "e", "r", "s">>
SyntaxKey == <<"s", "y", "n", "t", "a", "x">>
PlayerPrefix == <<"p", "l", "a", "y", "e", "r">>

\* str::starts_with
StartsWith(str, prefix) ==
    Len(str) >= Len(prefix) /\ SubSeq(str, 1, Len(prefix)) = prefix

\* Result<T>: Ok(value) or Err(error).
NoError == [kind |-> "None", colors |-> <<>>, name |-> <<>>, chain |-> <<>>]
ErrLookup(n) == [kind |-> "LookupMissing", colors |-> <<>>, name |-> n, chain |-> <<>>]
ErrPlayerPath == [kind |-> "PlayerPath", colors |-> <<>>, name |-> <<>>, chain |-> <<>>]
ErrSyntaxMap == [kind |-> "NoSyntaxMap", colors |-> <<>>, name |-> <<>>, chain |-> <<>>]
ROk(v) == [ok |-> TRUE, val |-> v, err |-> NoError]
RErr(e) == [ok |-> FALSE, val |-> <<>>, err |-> e]

\* ResolvedPalette::lookup, src/color/palette.rs lines 139-148.
ResolvedLookup(colors, color) ==
    IF color.base.kind = "Hex"
    THEN ROk(apply_modifiers(color.base.hex, color.modifiers))
    ELSE IF color.base.name \in DOMAIN colors
         THEN ROk(apply_modifiers(colors[color.base.name], color.modifiers))
         ELSE RErr(ErrLookup(color.base.name))

\* Mutant of merge: the theme's own entries come first.
MergeOwnFirst(self, bottom) ==
    [self EXCEPT !.modifiers = self.modifiers \o bottom.modifiers,
                 !.players = self.players \o bottom.players]

\* Theme::merge, src/schema/kdl.rs lines 42-50: self after self.merge(bottom).
merge(self, bottom) ==
    LET prev_mod == self.modifiers
        prev_players == self.players
    IN  [self EXCEPT !.modifiers = bottom.modifiers \o prev_mod,
                     !.players = bottom.players \o prev_players]

----------------------------------------------------------------------------
(* generate_json, src/generate/json.rs *)

\* `process`, line 30: the lookup of an optional color.
Process(colors, v) ==
    IF IsSome(v)
    THEN LET r == ResolvedLookup(colors, Unwrap(v))
         IN  IF r.ok THEN ROk(Some(r.val)) ELSE r
    ELSE ROk(None)

\* Lines 34-38: one player; the three lookups run in the order cursor,
\* selection, background and the first error is returned.
ProcessPlayer(colors, player) ==
    LET cursor == Process(colors, player.cursor)
        selection == Process(colors, player.selection)
        background == Process(colors, player.background)
    IN  IF ~cursor.ok THEN cursor
        ELSE IF ~selection.ok THEN selection
        ELSE IF ~background.ok THEN background
        ELSE ROk([cursor |-> cursor.val, background |-> background.val,
                  selection |-> selection.val])

\* Lines 32-39: the players of a theme, in order.
RECURSIVE ProcessPlayers(_, _)
ProcessPlayers(colors, players) ==
    IF players = <<>>
    THEN ROk(<<>>)
    ELSE LET head == ProcessPlayer(colors, Head(players))
             rest == ProcessPlayers(colors, Tail(players))
         IN  IF ~head.ok THEN head
             ELSE IF ~rest.ok THEN rest
             ELSE ROk(<<head.val>> \o rest.val)

\* Lines 41-48: the JsonTheme before any modifier is applied.
NewJsonTheme(theme, players) ==
    [name |-> theme.name,
     appearance |-> theme.appearance,
     style |-> (PlayersKey :> PlayersEntry(players)) @@ (SyntaxKey :> SyntaxEntry(EmptyMap))]

\* process_syntax_path, lines 85-109: base after the call, or the error.
process_syntax_path(action, colors, base, path) ==
    IF base.style[SyntaxKey].kind # "Syntax"
    THEN RErr(ErrSyntaxMap)
    ELSE LET syntax_map == base.style[SyntaxKey].syntax
             entry == IF path \in DOMAIN syntax_map THEN syntax_map[path] ELSE NewSyntax
             color == Process(colors, action.color)
             background == Process(colors, action.background)
         IN  IF ~color.ok THEN color
             ELSE IF ~background.ok THEN background
             ELSE LET syntax_entry ==
                          [color |-> IF IsSome(action.color) THEN color.val ELSE entry.color,
                           background |-> IF IsSome(action.background)
                                          THEN background.val ELSE entry.background,
                           font_style |-> action.font_style,
                           font_weight |-> action.font_weight]
                  IN  ROk([base EXCEPT !.style =
                            MapInsert(base.style, SyntaxKey,
                                      SyntaxEntry(MapInsert(syntax_map, path, syntax_entry)))])

\* Mutant of apply_action: the player namespace is refused only when the
\* action sets a color.
ApplyActionRefusesWithColor(base, action, colors, to) ==
    IF to.kind = "Style"
    THEN IF IsSome(action.color)
         THEN IF StartsWith(to.path, PlayerPrefix)
              THEN RErr(ErrPlayerPath)
              ELSE LET resolved == ResolvedLookup(colors, Unwrap(action.color))
                   IN  IF ~resolved.ok THEN resolved
                       ELSE ROk([base EXCEPT !.style =
                                 MapInsert(base.style, to.path, NormalEntry(Some(resolved.val)))])
         ELSE ROk(base)
    ELSE process_syntax_path(action, colors, base, to.path)

\* apply_action, lines 59-83: base after the call, or the error.
apply_action(base, action, colors, to) ==
    IF to.kind = "Style"
    THEN IF StartsWith(to.path, PlayerPrefix)
         THEN RErr(ErrPlayerPath)
         ELSE IF IsSome(action.color)
              THEN LET resolved == ResolvedLookup(colors, Unwrap(action.color))
                   IN  IF ~resolved.ok THEN resolved
                       ELSE ROk([base EXCEPT !.style =
                                 MapInsert(base.style, to.path, NormalEntry(Some(resolved.val)))])
              ELSE ROk(base)
    ELSE process_syntax_path(action, colors, base, to.path)

\* Lines 49-53: the (action, target) pairs of a modifier list in the order
\* the two nested loops take them.
RECURSIVE Writes(_)
Writes(modifiers) ==
    IF modifiers = <<>>
    THEN <<>>
    ELSE [i \in 1..Len(Head(modifiers).apply) |->
            [action |-> Head(modifiers).action, target |-> Head(modifiers).apply[i]]]
         \o Writes(Tail(modifiers))

\* Result of generate_json.
JsonOk(ts) == [kind |-> "Ok", themes |-> ts, error |-> NoError]
JsonErr(e) == [kind |-> "Err", themes |-> <<>>, error |-> e]

\* Lines 20 and 14-19: palette.into_palette().resolve()? failed.
GenerateResolveFailed ==
    /\ pc = "failed"
    /\ json' = Some(JsonErr(Unwrap(result)))
    /\ pc' = "done"
    /\ UNCHANGED <<family, themes, common, json_themes, base_json_theme, ti, wi>>
    /\ UNCHANGED resolveData
    /\ UNCHANGED notCompiler

\* Lines 27-29: every theme is merged with `common` when there is one.
GenerateMerge ==
    /\ pc = "resolved"
    /\ themes' = IF IsSome(common)
                 THEN [i \in DOMAIN themes |-> merge(themes[i], Unwrap(common))]
                 ELSE themes
    /\ pc' = "themes"
    /\ UNCHANGED <<family, common, json_themes, base_json_theme, ti, wi, json>>
    /\ UNCHANGED resolveData
    /\ UNCHANGED notCompiler

\* Lines 31-48: the next theme; its players are looked up and its JsonTheme
\* is made, or a lookup fails and generate_json returns the error.
GeneratePlayers ==
    /\ pc = "themes"
    /\ ti < Len(themes)
    /\ LET theme == themes[ti + 1]
           players == ProcessPlayers(resolutions, theme.players)
       IN  IF players.ok
           THEN /\ base_json_theme' = Some(NewJsonTheme(theme, players.val))
                /\ wi' = 0
                /\ pc' = "modifiers"
                /\ UNCHANGED json
           ELSE /\ json' = Some(JsonErr(players.err))
                /\ pc' = "done"
                /\ UNCHANGED <<base_json_theme, wi>>
    /\ UNCHANGED <<family, themes, common, json_themes, ti>>
    /\ UNCHANGED resolveData
    /\ UNCHANGED notCompiler

\* Lines 49-53: apply_action for the next (action, target) pair of the theme.
GenerateApply ==
    /\ pc = "modifiers"
    /\ wi < Len(Writes(themes[ti + 1].modifiers))
    /\ LET w == Writes(themes[ti + 1].modifiers)[wi + 1]
           applied == apply_action(Unwrap(base_json_theme), w.action, resolutions, w.target)
       IN  IF applied.ok
           THEN /\ base_json_theme' = Some(applied.val)
                /\ wi' = wi + 1
                /\ UNCHANGED <<json, pc>>
           ELSE /\ json' = Some(JsonErr(applied.err))
                /\ pc' = "done"
                /\ UNCHANGED <<base_json_theme, wi>>
    /\ UNCHANGED <<family, themes, common, json_themes, ti>>
    /\ UNCHANGED resolveData
    /\ UNCHANGED notCompiler

\* Line 54: the theme is finished and pushed.
GeneratePush ==
    /\ pc = "modifiers"
    /\ wi = Len(Writes(themes[ti + 1].modifiers))
    /\ json_themes' = Append(json_themes, Unwrap(base_json_theme))
    /\ base_json_theme' = None
    /\ ti' = ti + 1
    /\ wi' = 0
    /\ pc' = "themes"
    /\ UNCHANGED <<family, themes, common, json>>
    /\ UNCHANGED resolveData
    /\ UNCHANGED notCompiler

\* Line 56: Ok(base_theme_file).
GenerateOk ==
    /\ pc = "themes"
    /\ ti = Len(themes)
    /\ json' = Some(JsonOk(json_themes))
    /\ pc' = "done"
    /\ UNCHANGED <<family, themes, common, json_themes, base_json_theme, ti, wi>>
    /\ UNCHANGED resolveData
    /\ UNCHANGED notCompiler

----------------------------------------------------------------------------
(* generate_json_cmd and install_cmd, src/cli/commands.rs *)

\* What a file holds: what was there before the command, nothing (just
\* truncated), or a serialized family.
OldContent == [kind |-> "old", themes |-> <<>>]
Truncated == [kind |-> "empty", themes |-> <<>>]
Serialized(ts) == [kind |-> "family", themes |-> ts]

\* Mutant of Generated: the command goes on to open the output file whatever
\* generate_json returned.
GeneratedAlways(j) == TRUE

\* Line 98, `generate_json(kdl)?`: the command goes on only with Ok(json).
Generated(j) == j.kind = "Ok"

\* Lines 98 and 117: generate_json failed; `?` returns the error from
\* generate_json_cmd and again from install_cmd.
CmdGenerateFailed ==
    /\ pc = "done"
    /\ ~Generated(Unwrap(json))
    /\ cmd' = Some("Err")
    /\ pc' = "exit"
    /\ UNCHANGED <<outfile, installfile, before>>
    /\ UNCHANGED notCli

\* Lines 100-111: the output file is created, or truncated when it exists.
CmdOpen ==
    /\ pc = "done"
    /\ Generated(Unwrap(json))
    /\ outfile' = Some(Truncated)
    /\ pc' = "opened"
    /\ UNCHANGED <<installfile, before, cmd>>
    /\ UNCHANGED notCli

\* Lines 112-113: serde_json::to_writer_pretty(writer, &json).
CmdSerialize ==
    /\ pc = "opened"
    /\ outfile' = Some(Serialized(Unwrap(json).themes))
    /\ pc' = "written"
    /\ UNCHANGED <<installfile, before, cmd>>
    /\ UNCHANGED notCli

\* Lines 118-119 of install_cmd: std::fs::copy(outfile, installfile).
CmdCopy ==
    /\ pc = "written"
    /\ installfile' = outfile
    /\ cmd' = Some("Ok")
    /\ pc' = "exit"
    /\ UNCHANGED <<outfile, before>>
    /\ UNCHANGED notCli

----------------------------------------------------------------------------
(* Inputs of generate_json *)

NameA == NameSeq[1]
NameB == NameSeq[2]
NameC == NameSeq[3]
NoKey == <<"n", "o", "k", "e", "y">>
Blue == <<0, 0, 255, 255>>
Ref(n) == [base |-> PaletteReference(n), modifiers |-> NoModifiers]
Lit(h, m) == [base |-> Hex(h), modifiers |-> m]
ThirdAlpha == [NoModifiers EXCEPT !.alpha = Some(Third)]

\* A palette that resolves, and one with a cycle and a missing name.
GoodPalette ==
    (NameA :> Lit(<<255, 0, 0, 255>>, NoModifiers))
    @@ (NameB :> [base |-> PaletteReference(NameA), modifiers |-> ThirdAlpha])
BadPalette ==
    (NameA :> Ref(NameB)) @@ (NameB :> Ref(NameA)) @@ (NameC :> Ref(NoKey))

TextPath == <<"t", "e", "x", "t">>
Keyword == <<"k", "e", "y", "w", "o", "r", "d">>
Italic == <<"i", "t", "a", "l", "i", "c">>

ModifierPool ==
    { [action |-> [NoAction EXCEPT !.color = Some(Ref(NameA))],
       apply |-> <<Style(TextPath), Syntax(Keyword)>>],
      [action |-> [NoAction EXCEPT !.color = Some(Lit(Blue, ThirdAlpha)),
                                   !.background = Some(Ref(NameB))],
       apply |-> <<Syntax(Keyword), Style(TextPath)>>],
      [action |-> [NoAction EXCEPT !.font_weight = Some(700), !.font_style = Some(Italic)],
       apply |-> <<Syntax(Keyword)>>],
      [action |-> [NoAction EXCEPT !.font_weight = Some(400)],
       apply |-> <<Syntax(Keyword)>>],
      [action |-> [NoAction EXCEPT !.background = Some(Ref(NoKey))],
       apply |-> <<Syntax(Keyword)>>],
      [action |-> [NoAction EXCEPT !.color = Some(Ref(NameB))],
       apply |-> <<Style(PlayersKey)>>],
      [action |-> [NoAction EXCEPT !.font_weight = Some(700)],
       apply |-> <<Style(PlayerPrefix)>>],
      [action |-> [NoAction EXCEPT !.color = Some(Ref(NameB))],
       apply |-> <<Syntax(Keyword), Style(SyntaxKey)>>] }

\* the sequences over S of length at most n
SeqsUpTo(S, n) == UNION {[1..k -> S] : k \in 0..n}

Player1 == [cursor |-> Some(Ref(NameA)), background |-> None,
            selection |-> Some(Lit(Blue, ThirdAlpha))]
Player2 == [cursor |-> None, background |-> Some(Ref(NameB)), selection |-> None]
PlayerBad == [cursor |-> Some(Ref(NameA)), background |-> None, selection |-> Some(Ref(NoKey))]

DarkName == <<"d", "a", "r", "k">>
LightName == <<"l", "i", "g", "h", "t">>
CommonName == <<"c", "o", "m", "m", "o", "n">>

ThemeSet ==
    { [name |-> DarkName, appearance |-> "Dark", players |-> ps, modifiers |-> ms] :
        ps \in {<<>>, <<Player1>>, <<PlayerBad>>}, ms \in SeqsUpTo(ModifierPool, MaxModifiers) }
SecondTheme ==
    [name |-> LightName, appearance |-> "Light", players |-> <<Player2>>,
     modifiers |-> << [action |-> [NoAction EXCEPT !.font_weight = Some(400)],
                       apply |-> <<Syntax(Keyword)>>] >>]
CommonSet ==
    { [name |-> CommonName, appearance |-> "Dark", players |-> ps, modifiers |-> ms] :
        ps \in {<<>>, <<Player2>>}, ms \in SeqsUpTo(ModifierPool, 1) }

FamilySet ==
    { [themes |-> ts, common |-> c] :
        ts \in {<<t>> : t \in ThemeSet} \cup {<<t, SecondTheme>> : t \in ThemeSet},
        c \in {None} \cup {Some(t) : t \in CommonSet} }

\* generate_json(family), lines 11-25: the family is taken apart and
\* palette.into_palette().resolve() is entered.  The output file and the
\* installed file exist already, or (for the families without a common
\* theme) are absent.
InitCompile ==
    /\ \/ palette = GoodPalette /\ family \in FamilySet
       \/ /\ palette = BadPalette
          /\ family = [themes |-> <<SecondTheme>>, common |-> None]
    /\ themes = family.themes
    /\ common = family.common
    /\ json_themes = <<>>
    /\ base_json_theme = None
    /\ ti = 0
    /\ wi = 0
    /\ json = None
    /\ resolutions = EmptyMap
    /\ deps = <<>>
    /\ stack = <<>>
    /\ retval = None
    /\ todo = DOMAIN palette
    /\ top = None
    /\ result = None
    /\ pc = "loop"
    /\ run = 1
    /\ first = None
    /\ GeneratorNew
    /\ \E old \in IF family.common = None THEN {None, Some(OldContent)}
                                          ELSE {Some(OldContent)} :
        /\ outfile = old
        /\ installfile = old
        /\ before = <<old, old>>
    /\ cmd = None
    /\ KdlIdle
    /\ WatchIdle

NextCompile ==
    \/ ResolveNext
    \/ EnterMemo
    \/ EnterCycle
    \/ EnterHex
    \/ EnterMissing
    \/ EnterReference
    \/ ReturnToCaller
    \/ ReturnToLoop
    \/ ResolveOk
    \/ GenerateResolveFailed
    \/ GenerateMerge
    \/ GeneratePlayers
    \/ GenerateApply
    \/ GeneratePush
    \/ GenerateOk
    \/ CmdGenerateFailed
    \/ CmdOpen
    \/ CmdSerialize
    \/ CmdCopy

SpecCompile == InitCompile /\ [][NextCompile]_vars

----------------------------------------------------------------------------
(* visit_styles and the two visitors, src/generate/kdl.rs *)

\* The orders in which a HashMap or HashSet with the keys S can be iterated.
RECURSIVE Perms(_)
Perms(S) == IF S = {} THEN {<<>>} ELSE UNION {{<<x>> \o p : p \in Perms(S \ {x})} : x \in S}

\* The calls visit_styles makes on a visitor.
VisitColor(path, color) ==
    [visit |-> "color", path |-> path, color |-> color, style |-> <<>>, weight |-> 0]
VisitFontStyle(path, style) ==
    [visit |-> "font_style", path |-> Some(path), color |-> <<0, 0, 0, 0>>,
     style |-> style, weight |-> 0]
VisitFontWeight(path, weight) ==
    [visit |-> "font_weight", path |-> Some(path), color |-> <<0, 0, 0, 0>>,
     style |-> <<>>, weight |-> weight]

\* `if let Some(color) = v { visitor.visit_color(path, color) }`
VisitOptColor(path, v) == IF IsSome(v) THEN <<VisitColor(path, Unwrap(v))>> ELSE <<>>

\* Mutant of VisitPlayers: only the cursor of a player is visited.
RECURSIVE VisitPlayersCursorOnly(_)
VisitPlayersCursorOnly(players) ==
    IF players = <<>>
    THEN <<>>
    ELSE VisitOptColor(None, Head(players).cursor) \o VisitPlayersCursorOnly(Tail(players))

\* visit_styles, lines 29-39: the players of a Players entry.
RECURSIVE VisitPlayers(_)
VisitPlayers(players) ==
    IF players = <<>>
    THEN <<>>
    ELSE VisitOptColor(None, Head(players).cursor)
         \o VisitOptColor(None, Head(players).background)
         \o VisitOptColor(None, Head(players).selection)
         \o VisitPlayers(Tail(players))

\* visit_styles, lines 42-57: the scopes of a syntax map in the order given.
\* Color and background both go to visit_color with the same path.
RECURSIVE VisitSyntax(_, _)
VisitSyntax(syntax_map, scopeOrder) ==
    IF scopeOrder = <<>>
    THEN <<>>
    ELSE LET name == Head(scopeOrder)
             syntax == syntax_map[name]
             path == Syntax(name)
         IN  VisitOptColor(Some(path), syntax.color)
             \o VisitOptColor(Some(path), syntax.background)
             \o (IF IsSome(syntax.font_style)
                 THEN <<VisitFontStyle(path, Unwrap(syntax.font_style))>> ELSE <<>>)
             \o (IF IsSome(syntax.font_weight)
                 THEN <<VisitFontWeight(path, Unwrap(syntax.font_weight))>> ELSE <<>>)
             \o VisitSyntax(syntax_map, Tail(scopeOrder))

\* visit_styles, lines 22-62: the calls made for a style map whose keys are
\* iterated in keyOrder and whose syntax map is iterated in scopeOrder.
RECURSIVE VisitStyles(_, _, _)
VisitStyles(map, keyOrder, scopeOrder) ==
    IF keyOrder = <<>>
    THEN <<>>
    ELSE LET key == Head(keyOrder)
             value == map[key]
         IN  (CASE value.kind = "Normal" -> VisitOptColor(Some(Style(key)), value.normal)
                [] value.kind = "Players" -> VisitPlayers(value.players)
                [] value.kind = "Syntax" -> VisitSyntax(value.syntax, scopeOrder))
             \o VisitStyles(map, Tail(keyOrder), scopeOrder)

\* The scopes of the syntax map of a style map (the one Syntax entry the
\* style maps of the model have is at the key "syntax").
ScopesOf(map) ==
    IF SyntaxKey \in DOMAIN map /\ map[SyntaxKey].kind = "Syntax"
    THEN DOMAIN map[SyntaxKey].syntax
    ELSE {}

\* Mutant of FeedAll: colors that are not opaque are not fed.
RECURSIVE FeedAllOpaque(_, _)
FeedAllOpaque(m, visits) ==
    IF visits = <<>>
    THEN m
    ELSE FeedAllOpaque(IF Head(visits).visit = "color" /\ Head(visits).color[4] = 255
                       THEN FeedMap(m, Head(visits).color) ELSE m,
                       Tail(visits))

\* ColorVisitor, lines 74-78: every visit_color feeds the generator.
RECURSIVE FeedAll(_, _)
FeedAll(m, visits) ==
    IF visits = <<>>
    THEN m
    ELSE FeedAll(IF Head(visits).visit = "color" THEN FeedMap(m, Head(visits).color) ELSE m,
                 Tail(visits))

\* MultiMap::insert: the value is pushed on the vector of the key.
MultiInsert(mm, k, v) ==
    IF k \in DOMAIN mm THEN [mm EXCEPT ![k] = Append(@, v)] ELSE mm @@ (k :> <<v>>)

\* ModifierVisitor::new, lines 89-97.
NewModifierVisitor ==
    [colors |-> EmptyMap, background |-> EmptyMap,
     font_weight |-> EmptyMap, font_style |-> EmptyMap]

\* impl StyleVisitor for ModifierVisitor, lines 136-150: one call.
ModifierVisit(v, m, call) ==
    CASE call.visit = "color" ->
            IF call.path = None
            THEN v
            ELSE [v EXCEPT !.colors =
                    MultiInsert(@, GeneratorLookup(m, call.color), Unwrap(call.path))]
      [] call.visit = "font_style" ->
            [v EXCEPT !.font_style = MultiInsert(@, call.style, Unwrap(call.path))]
      [] call.visit = "font_weight" ->
            [v EXCEPT !.font_weight = MultiInsert(@, call.weight, Unwrap(call.path))]

\* visit_styles(&mut modifier_visitor, ..), line 189.
RECURSIVE ModifierVisitAll(_, _, _)
ModifierVisitAll(v, m, visits) ==
    IF visits = <<>>
    THEN v
    ELSE ModifierVisitAll(ModifierVisit(v, m, Head(visits)), m, Tail(visits))

\* into_modifiers, lines 98-133: the four maps in turn, each iterated in the
\* order given.
into_modifiers(v, colorOrder, backgroundOrder, styleOrder, weightOrder) ==
    [i \in 1..Len(colorOrder) |->
        [action |-> [NoAction EXCEPT !.color = Some(colorOrder[i])],
         apply |-> v.colors[colorOrder[i]]]]
    \o [i \in 1..Len(backgroundOrder) |->
        [action |-> [NoAction EXCEPT !.background = Some(backgroundOrder[i])],
         apply |-> v.background[backgroundOrder[i]]]]
    \o [i \in 1..Len(styleOrder) |->
        [action |-> [NoAction EXCEPT !.font_style = Some(styleOrder[i])],
         apply |-> v.font_style[styleOrder[i]]]]
    \o [i \in 1..Len(weightOrder) |->
        [action |-> [NoAction EXCEPT !.font_weight = Some(weightOrder[i])],
         apply |-> v.font_weight[weightOrder[i]]]]

\* `x.map(|x| palette_generator.lookup(x))`, lines 182-184.
LookupOpt(m, v) == IF IsSome(v) THEN Some(GeneratorLookup(m, Unwrap(v))) ELSE None

\* generate_kdl, lines 178-187: the players of the decompiled theme.
TranslatePlayers(m, map) ==
    IF PlayersKey \in DOMAIN map /\ map[PlayersKey].kind = "Players"
    THEN [i \in 1..Len(map[PlayersKey].players) |->
            [cursor |-> LookupOpt(m, map[PlayersKey].players[i].cursor),
             background |-> LookupOpt(m, map[PlayersKey].players[i].background),
             selection |-> LookupOpt(m, map[PlayersKey].players[i].selection)]]
    ELSE <<>>

\* into_resolved_palette().into_raw_palette(), palette.rs lines 230-238 and
\* 125-138: every name with its opaque literal and no modifier.
RawPaletteOf(m) ==
    [n \in {p[2] : p \in m} |-> LET rgb == Unwrap(GetByRight(m, n))
                                IN  <<rgb[1], rgb[2], rgb[3], 255>>]

----------------------------------------------------------------------------
(* Theme::extract_common and Theme::discard_intersection, src/schema/kdl.rs *)

\* Mutant of PlayerIntersect: two players are taken for the same when their
\* cursors are equal.
PlayerIntersectByCursor(self, other) ==
    SelectSeq(self.players,
              LAMBDA x : \E k \in DOMAIN other.players : other.players[k].cursor = x.cursor)

\* Lines 68-73: the players of self that other has too, in the order of self.
PlayerIntersect(self, other) ==
    SelectSeq(self.players, LAMBDA x : x \in Range(other.players))

\* Lines 75-85: `.map(|x| (&x.action, &x.apply)).collect()` into a HashMap;
\* a later modifier with the same action replaces the earlier one.  The apply
\* list is kept as the set of its targets, which is all the code asks of it.
ModifierMap(modifiers) ==
    [a \in {modifiers[i].action : i \in DOMAIN modifiers} |->
        Range(modifiers[Max({i \in DOMAIN modifiers : modifiers[i].action = a})].apply)]

\* Lines 87-104: for every action of both maps the targets both have, the
\* actions with no such target left out.
Intersection(self, other) ==
    LET this_modifiers == ModifierMap(self.modifiers)
        other_modifiers == ModifierMap(other.modifiers)
        both == DOMAIN this_modifiers \cap DOMAIN other_modifiers
    IN  [a \in {b \in both : this_modifiers[b] \cap other_modifiers[b] # {}} |->
            this_modifiers[a] \cap other_modifiers[a]]

\* discard_intersection, lines 52-65.
discard_intersection(self, players, modifiers) ==
    LET retained == [i \in DOMAIN self.modifiers |->
                        IF self.modifiers[i].action \in DOMAIN modifiers
                        THEN [self.modifiers[i] EXCEPT !.apply =
                                SelectSeq(@, LAMBDA x :
                                    x \notin modifiers[self.modifiers[i].action])]
                        ELSE self.modifiers[i]]
    IN  [self EXCEPT !.modifiers = SelectSeq(retained, LAMBDA x : x.apply # <<>>),
                     !.players = SelectSeq(@, LAMBDA x : x \notin Range(players))]

\* The orders in which `<_>::from_iter(path)` can take the targets of each
\* action of the intersection.
ApplyOrders(intersection) ==
    {f \in [DOMAIN intersection -> UNION {Perms(intersection[a]) : a \in DOMAIN intersection}] :
        \A a \in DOMAIN intersection : f[a] \in Perms(intersection[a])}

CommonThemeName == <<"c", "o", "m", "m", "o", "n">>

\* extract_common, lines 67-119: self and other afterwards and the theme
\* returned, when the intersection is iterated in actionOrder and the targets
\* of each action in applyOrder.
extract_common(self, other, actionOrder, applyOrder) ==
    LET player_intersect == PlayerIntersect(self, other)
        intersection == Intersection(self, other)
    IN  [self |-> discard_intersection(self, player_intersect, intersection),
         other |-> discard_intersection(other, player_intersect, intersection),
         common |-> [name |-> CommonThemeName,
                     appearance |-> "Dark",
                     players |-> player_intersect,
                     modifiers |-> [i \in 1..Len(actionOrder) |->
                                      [action |-> actionOrder[i],
                                       apply |-> applyOrder[actionOrder[i]]]]]]

----------------------------------------------------------------------------
(* generate_kdl, src/generate/kdl.rs lines 152-204 *)

\* Lines 162-164: visit_styles(&mut color_visitor, &theme.style) for the next
\* theme.
KdlFeed ==
    /\ kpc = "feed"
    /\ fi < Len(flat)
    /\ \E keyOrder \in Perms(DOMAIN flat[fi + 1].style) :
       \E scopeOrder \in Perms(ScopesOf(flat[fi + 1].style)) :
            rgb_to_name' = FeedAll(rgb_to_name,
                                   VisitStyles(flat[fi + 1].style, keyOrder, scopeOrder))
    /\ fi' = fi + 1
    /\ UNCHANGED <<flat, kpc, kthemes, kcommon, translated, kpalette>>
    /\ UNCHANGED notKdl

\* Line 166: the palette generator is taken out of the visitor.
KdlFed ==
    /\ kpc = "feed"
    /\ fi = Len(flat)
    /\ kpc' = "translate"
    /\ fi' = 0
    /\ UNCHANGED <<flat, kthemes, kcommon, translated, kpalette, rgb_to_name>>
    /\ UNCHANGED notKdl

\* Lines 169-195: the next theme is translated and pushed.
KdlTranslate ==
    /\ kpc = "translate"
    /\ fi < Len(flat)
    /\ LET theme == flat[fi + 1] IN
       \E keyOrder \in Perms(DOMAIN theme.style) :
       \E scopeOrder \in Perms(ScopesOf(theme.style)) :
         LET v == ModifierVisitAll(NewModifierVisitor, rgb_to_name,
                                   VisitStyles(theme.style, keyOrder, scopeOrder))
         IN  \E colorOrder \in Perms(DOMAIN v.colors) :
             \E backgroundOrder \in Perms(DOMAIN v.background) :
             \E styleOrder \in Perms(DOMAIN v.font_style) :
             \E weightOrder \in Perms(DOMAIN v.font_weight) :
                kthemes' = Append(kthemes,
                    [name |-> theme.name,
                     appearance |-> theme.appearance,
                     players |-> TranslatePlayers(rgb_to_name, theme.style),
                     modifiers |-> into_modifiers(v, colorOrder, backgroundOrder,
                                                  styleOrder, weightOrder)])
    /\ fi' = fi + 1
    /\ UNCHANGED <<flat, kpc, kcommon, translated, kpalette, rgb_to_name>>
    /\ UNCHANGED notKdl

\* Mutant of ExactlyTwo: the first two of two or more themes are taken.
TwoOrMore(ts) == Len(ts) >= 2

\* Line 198: `if let [t1, t2] = base_theme.themes.as_mut_slice()`.
ExactlyTwo(ts) == Len(ts) = 2

\* Lines 197-199 and 203: exactly two themes; the common theme is extracted.
KdlExtract ==
    /\ kpc = "translate"
    /\ fi = Len(flat)
    /\ ExactlyTwo(kthemes)
    /\ \E actionOrder \in Perms(DOMAIN Intersection(kthemes[1], kthemes[2])) :
       \E applyOrder \in ApplyOrders(Intersection(kthemes[1], kthemes[2])) :
         LET extracted == extract_common(kthemes[1], kthemes[2], actionOrder, applyOrder)
         IN  /\ kthemes' = <<extracted.self, extracted.other>>
             /\ kcommon' = Some(extracted.common)
    /\ translated' = kthemes
    /\ kpalette' = RawPaletteOf(rgb_to_name)
    /\ kpc' = "returned"
    /\ UNCHANGED <<flat, fi, rgb_to_name>>
    /\ UNCHANGED notKdl

\* Lines 197-203: any other number of themes; `common` stays None (with a
\* warning for more than two).
KdlNoExtract ==
    /\ kpc = "translate"
    /\ fi = Len(flat)
    /\ ~ExactlyTwo(kthemes)
    /\ translated' = kthemes
    /\ kpalette' = RawPaletteOf(rgb_to_name)
    /\ kpc' = "returned"
    /\ UNCHANGED <<flat, fi, kthemes, kcommon, rgb_to_name>>
    /\ UNCHANGED notKdl

----------------------------------------------------------------------------
(* Inputs of generate_kdl and of extract_common *)

OpaqueRed == <<255, 0, 0, 255>>
HalfRed == <<255, 0, 0, 128>>
OpaqueGray == <<105, 105, 105, 255>>
OtherRed == <<254, 0, 0, 255>>
StringScope == <<"s", "t", "r", "i", "n", "g">>
BorderPath == <<"b", "o", "r", "d", "e", "r">>

FlatPlayer1 == [cursor |-> Some(OpaqueRed), background |-> None, selection |-> Some(HalfRed)]
FlatPlayer2 == [cursor |-> None, background |-> Some(OpaqueGray), selection |-> None]

\* A style map as generate_json makes it: the players, the syntax map and
\* the flat keys.
FlatStyle(players, syntax_map, keys) ==
    (PlayersKey :> PlayersEntry(players)) @@ (SyntaxKey :> SyntaxEntry(syntax_map)) @@ keys

\* Flat themes with a scope whose color and background are the same color, a
\* scope with a background only, shared and unshared targets, two triples
\* with the same base name, and a key without a color.
FlatThemeSet ==
    { [name |-> DarkName, appearance |-> "Dark",
       style |-> FlatStyle(<<FlatPlayer1>>,
                    Keyword :> [color |-> Some(OpaqueRed), background |-> Some(OpaqueRed),
                                font_weight |-> Some(700), font_style |-> None],
                    TextPath :> NormalEntry(Some(OpaqueGray)))],
      [name |-> LightName, appearance |-> "Light",
       style |-> FlatStyle(<<FlatPlayer2, FlatPlayer1>>,
                    (Keyword :> [color |-> Some(OpaqueRed), background |-> Some(OpaqueRed),
                                 font_weight |-> Some(700), font_style |-> None])
                    @@ (StringScope :> [color |-> None, background |-> Some(OpaqueGray),
                                        font_weight |-> Some(700), font_style |-> Some(Italic)]),
                    TextPath :> NormalEntry(Some(OpaqueGray)))],
      [name |-> DarkName, appearance |-> "Dark",
       style |-> FlatStyle(<<FlatPlayer2>>,
                    StringScope :> [color |-> Some(HalfRed), background |-> None,
                                    font_weight |-> None, font_style |-> Some(Italic)],
                    (TextPath :> NormalEntry(Some(OtherRed)))
                    @@ (BorderPath :> NormalEntry(None)))] }

FlatFamilySet == SeqsUpTo(FlatThemeSet, MaxThemes)

\* generate_kdl(theme_family), lines 152-161.
KdlStart(theme_family) ==
    /\ flat = theme_family
    /\ kpc = "feed"
    /\ fi = 0
    /\ kthemes = <<>>
    /\ kcommon = None
    /\ translated = <<>>
    /\ kpalette = EmptyMap

InitKdl ==
    /\ \E theme_family \in FlatFamilySet : KdlStart(theme_family)
    /\ GeneratorNew
    /\ ResolverIdle
    /\ CompilerIdle
    /\ CliIdle
    /\ WatchIdle

NextKdl ==
    \/ KdlFeed
    \/ KdlFed
    \/ KdlTranslate
    \/ KdlExtract
    \/ KdlNoExtract

SpecKdl == InitKdl /\ [][NextKdl]_vars

\* generate_kdl is called on the family generate_json returned.
Decompile ==
    /\ pc = "exit"
    /\ cmd = Some("Ok")
    /\ kpc = "idle"
    /\ flat' = Unwrap(json).themes
    /\ kpc' = "feed"
    /\ UNCHANGED <<fi, kthemes, kcommon, translated, kpalette, rgb_to_name>>
    /\ UNCHANGED notKdl

NextRoundTrip ==
    \/ NextCompile
    \/ Decompile
    \/ NextKdl

SpecRoundTrip == InitCompile /\ [][NextRoundTrip]_vars

\* Themes given to extract_common: the same action in several modifiers,
\* with targets that overlap or not, and shared and unshared players.
SharedColor == [NoAction EXCEPT !.color = Some(Ref(<<"r", "e", "d">>))]
SharedWeight == [NoAction EXCEPT !.font_weight = Some(700)]
ExtractModifierPool ==
    { [action |-> SharedColor, apply |-> <<Syntax(Keyword)>>],
      [action |-> SharedColor, apply |-> <<Syntax(StringScope)>>],
      [action |-> SharedColor, apply |-> <<Style(TextPath), Syntax(Keyword)>>],
      [action |-> SharedWeight, apply |-> <<Syntax(Keyword)>>],
      [action |-> SharedWeight, apply |-> <<Syntax(StringScope), Syntax(Keyword)>>] }
ExtractThemeSet ==
    { [name |-> DarkName, appearance |-> "Light", players |-> ps, modifiers |-> ms] :
        ps \in {<<>>, <<Player1>>, <<Player2, Player1>>},
        ms \in SeqsUpTo(ExtractModifierPool, MaxModifiers) }

\* t1.extract_common(t2) is about to be called on two themes.
InitExtract ==
    /\ flat = <<>>
    /\ kpc = "extract_common"
    /\ fi = 0
    /\ kthemes \in {<<t1, t2>> : t1, t2 \in ExtractThemeSet}
    /\ kcommon = None
    /\ translated = <<>>
    /\ kpalette = EmptyMap
    /\ GeneratorNew
    /\ ResolverIdle
    /\ CompilerIdle
    /\ CliIdle
    /\ WatchIdle

\* kdl.rs lines 67-119: t1.extract_common(t2).
ExtractCommon ==
    /\ kpc = "extract_common"
    /\ \E actionOrder \in Perms(DOMAIN Intersection(kthemes[1], kthemes[2])) :
       \E applyOrder \in ApplyOrders(Intersection(kthemes[1], kthemes[2])) :
         LET extracted == extract_common(kthemes[1], kthemes[2], actionOrder, applyOrder)
         IN  /\ kthemes' = <<extracted.self, extracted.other>>
             /\ kcommon' = Some(extracted.common)
    /\ translated' = kthemes
    /\ kpc' = "returned"
    /\ UNCHANGED <<flat, fi, kpalette, rgb_to_name>>
    /\ UNCHANGED notKdl

NextExtract == ExtractCommon

\* Themes for extract_common with player lists that repeat a player and hold
\* players that differ in one color's modifier only.
Player3 == [Player1 EXCEPT !.selection = Some(Lit(Blue, NoModifiers))]
ExtractPlayerSet == {Player1, Player2, Player3}
ExtractPlayerThemeSet ==
    { [name |-> DarkName, appearance |-> "Light", players |-> ps, modifiers |-> ms] :
        ps \in SeqsUpTo(ExtractPlayerSet, MaxPlayers),
        ms \in {<<>>, <<[action |-> SharedWeight, apply |-> <<Syntax(Keyword)>>]>>} }

InitExtractPlayers ==
    /\ flat = <<>>
    /\ kpc = "extract_common"
    /\ fi = 0
    /\ kthemes \in {<<t1, t2>> : t1, t2 \in ExtractPlayerThemeSet}
    /\ kcommon = None
    /\ translated = <<>>
    /\ kpalette = EmptyMap
    /\ GeneratorNew
    /\ ResolverIdle
    /\ CompilerIdle
    /\ CliIdle
    /\ WatchIdle

SpecExtractPlayers == InitExtractPlayers /\ [][NextExtract]_vars

SpecExtract == InitExtract /\ [][NextExtract]_vars

----------------------------------------------------------------------------
(* watch_cmd, src/cli/commands.rs lines 122-164 *)

\* What the watcher sends: Err(e), or Ok(event) with one of the event kinds
\* the match of lines 137-161 tells apart.
Events == {"Err", "CloseWrite", "Access", "Create", "Remove", "Modify"}

\* Mutant of Classify: an error of the watcher is passed up and ends
\* watch_cmd, and every access event starts a run.
ClassifyErrReturns(event) ==
    CASE event = "Err" -> "return"
      [] event = "CloseWrite" -> "install"
      [] event = "Access" -> "install"
      [] event = "Create" -> "continue"
      [] event = "Remove" -> "return"
      [] OTHER -> "continue"

\* Mutant of Classify: a Remove event is passed over like a Create event.
ClassifyRemovePassed(event) ==
    CASE event = "CloseWrite" -> "install"
      [] OTHER -> "continue"

\* Lines 130-161: what the loop does with an event.
Classify(event) ==
    CASE event = "Err" -> "continue"
      [] event = "CloseWrite" -> "install"
      [] event = "Access" -> "continue"
      [] event = "Create" -> "continue"
      [] event = "Remove" -> "return"
      [] OTHER -> "continue"

\* Mutant of Receiving: the next event is taken whenever the loop has not
\* returned, also while a run is in progress.
ReceivingAnytime(w) == w # "stopped"

\* Line 129, `for res in rx`: the thread is at the receive of the channel,
\* which it reaches again only when the body of the loop has finished.
Receiving(w) == w = "recv"

\* The watcher's thread sends an event through tx (line 126); it can do so at
\* any time until watch_cmd returns and drops the watcher.
WatcherSend(event) ==
    /\ wpc # "stopped"
    /\ sent < MaxEvents
    /\ queue' = Append(queue, event)
    /\ sent' = sent + 1
    /\ UNCHANGED <<wpc, active, runs, removed, outfile, installfile, cmd>>
    /\ UNCHANGED notWatch

\* Lines 129-136 and 150-155, 160: an event that changes nothing is taken.
WatchContinue ==
    /\ Receiving(wpc)
    /\ queue # <<>>
    /\ Classify(Head(queue)) = "continue"
    /\ queue' = Tail(queue)
    /\ removed' = (removed \/ Head(queue) = "Remove")
    /\ UNCHANGED <<wpc, sent, active, runs, outfile, installfile, cmd>>
    /\ UNCHANGED notWatch

\* Lines 140-143: a close-after-write event is taken; install_cmd is called.
WatchInstall ==
    /\ Receiving(wpc)
    /\ queue # <<>>
    /\ Classify(Head(queue)) = "install"
    /\ queue' = Tail(queue)
    /\ active' = active + 1
    /\ runs' = runs + 1
    /\ wpc' = "generate"
    /\ UNCHANGED <<sent, removed, outfile, installfile, cmd>>
    /\ UNCHANGED notWatch

\* Lines 156-159: a Remove event is taken; watch_cmd returns.
WatchRemove ==
    /\ Receiving(wpc)
    /\ queue # <<>>
    /\ Classify(Head(queue)) = "return"
    /\ queue' = Tail(queue)
    /\ removed' = TRUE
    /\ wpc' = "stopped"
    /\ UNCHANGED <<sent, active, runs, outfile, installfile, cmd>>
    /\ UNCHANGED notWatch

\* Lines 97-98 and 117, 143-148: the input is read and compiled.  What the
\* file holds is not followed here: the run goes on, or it fails, is logged
\* and the loop goes back to the channel.
RunGenerate ==
    /\ wpc = "generate"
    /\ \E ok \in BOOLEAN :
        IF ok
        THEN /\ wpc' = "open"
             /\ UNCHANGED <<active, cmd>>
        ELSE /\ wpc' = "recv"
             /\ active' = active - 1
             /\ cmd' = Some("Err")
    /\ UNCHANGED <<queue, sent, runs, removed, outfile, installfile>>
    /\ UNCHANGED notWatch

\* Lines 100-111: the output file is created or truncated.
RunOpen ==
    /\ wpc = "open"
    /\ outfile' = Some(Truncated)
    /\ wpc' = "write"
    /\ UNCHANGED <<queue, sent, active, runs, removed, installfile, cmd>>
    /\ UNCHANGED notWatch

\* Lines 112-113: the compiled family is written.
RunWrite ==
    /\ wpc = "write"
    /\ outfile' = Some(Serialized(<<>>))
    /\ wpc' = "copy"
    /\ UNCHANGED <<queue, sent, active, runs, removed, installfile, cmd>>
    /\ UNCHANGED notWatch

\* Lines 118-119 and 144: the output is copied to the install location and
\* install_cmd returns Ok.
RunCopy ==
    /\ wpc = "copy"
    /\ installfile' = outfile
    /\ cmd' = Some("Ok")
    /\ active' = active - 1
    /\ wpc' = "recv"
    /\ UNCHANGED <<queue, sent, runs, removed, outfile>>
    /\ UNCHANGED notWatch

\* Lines 103, 105-113 and 118, with 145-147: a file operation of the run
\* fails; the error is logged and the loop goes back to the channel.
RunIoError ==
    /\ wpc \in {"open", "write", "copy"}
    /\ cmd' = Some("Err")
    /\ active' = active - 1
    /\ wpc' = "recv"
    /\ UNCHANGED <<queue, sent, runs, removed, outfile, installfile>>
    /\ UNCHANGED notWatch

\* Lines 123-128: the channel is made and the watcher started.
InitWatch ==
    /\ queue = <<>>
    /\ wpc = "recv"
    /\ sent = 0
    /\ active = 0
    /\ runs = 0
    /\ removed = FALSE
    /\ outfile = None
    /\ installfile = None
    /\ before = <<None, None>>
    /\ cmd = None
    /\ GeneratorNew
    /\ ResolverIdle
    /\ CompilerIdle
    /\ KdlIdle

NextWatch ==
    \/ \E event \in Events : WatcherSend(event)
    \/ WatchContinue
    \/ WatchInstall
    \/ WatchRemove
    \/ RunGenerate
    \/ RunOpen
    \/ RunWrite
    \/ RunCopy
    \/ RunIoError

SpecWatch == InitWatch /\ [][NextWatch]_vars

----------------------------------------------------------------------------
(* What the palette says, read off the palette alone *)

IsReference(n) == palette[n].base.kind = "PaletteReference"

\* The names met when following the references from the last name of `seen`:
\* the walk stops at a literal entry, and otherwise ends with the first name
\* that is no key of the palette or that was met before.
RECURSIVE Walk(_)
Walk(seen) ==
    LET n == seen[Len(seen)]
    IN  IF ~IsReference(n)
        THEN seen
        ELSE LET r == palette[n].base.name
             IN  IF r \notin DOMAIN palette \/ r \in Range(seen)
                 THEN Append(seen, r)
                 ELSE Walk(Append(seen, r))

WalkFrom(n) == Walk(<<n>>)
Last(s) == s[Len(s)]

EndsAtLiteral(n) == Last(WalkFrom(n)) \in DOMAIN palette /\ ~IsReference(Last(WalkFrom(n)))
EndsMissing(n) == Last(WalkFrom(n)) \notin DOMAIN palette
EndsInCycle(n) == ~EndsAtLiteral(n) /\ ~EndsMissing(n)
\* For a walk that ends in a cycle: the cycle, from the repeated name back to itself.
CycleOf(n) ==
    LET w == WalkFrom(n)
        i == CHOOSE i \in 1..(Len(w) - 1) : w[i] = Last(w)
    IN  SubSeq(w, i, Len(w))

WellFounded == \A n \in DOMAIN palette : EndsAtLiteral(n)
SelfReferencing(n) == IsReference(n) /\ palette[n].base.name = n

Finished == pc \in {"resolved", "failed"}
Res == Unwrap(result)

----------------------------------------------------------------------------
(* Claims about Palette::resolve *)

\* C1: for a palette in which every reference chain ends at a literal color,
\* two calls of resolve that take the entries in any two orders both return
\* Ok with the same name-to-color map.
C1_Confluent ==
    (run = 2 /\ Finished /\ WellFounded) =>
        /\ Res.kind = "Ok"
        /\ result = first

\* C1 witness: both calls finished on a palette with a reference to a
\* reference, both with a modifier.
C1_Witness ==
    /\ run = 2 /\ pc = "resolved" /\ WellFounded
    /\ \E n \in DOMAIN palette :
        /\ Len(WalkFrom(n)) = 3
        /\ IsSome(palette[WalkFrom(n)[2]].modifiers.alpha)
        /\ IsSome(palette[n].modifiers.alpha)

\* C2: a palette with a self-referencing entry never resolves, and when the
\* top-level entry at which resolve fails leads to a self-referencing entry
\* (directly or through other entries) the report is the "directly depends on
\* itself" one for that entry, never the chain report.
C2_SelfCycle ==
    Finished =>
        /\ (\E a \in DOMAIN palette : SelfReferencing(a)) => pc = "failed"
        /\ \A a \in DOMAIN palette :
            (pc = "failed" /\ SelfReferencing(a) /\ a \in Range(WalkFrom(Unwrap(top))))
                => Res = ErrSelf(a)

\* C2 witness: the self report for an entry reached through another entry,
\* after an earlier top-level entry was resolved.
C2_Witness ==
    /\ pc = "failed" /\ Res.kind = "SelfCycle"
    /\ Res.name # Unwrap(top)
    /\ Len(deps) = 2
    /\ resolutions # EmptyMap

\* C3: a palette with a cycle of two or more names never resolves; a chain
\* report starts and ends with the same name, lists distinct names in between,
\* each depending on the next; and when the walk from the failing top-level
\* entry runs into such a cycle the report is that cycle from the first
\* repeated name back to itself, without the names leading into it.
C3_Chain ==
    Finished =>
        /\ (\E n \in DOMAIN palette : EndsInCycle(n) /\ Len(CycleOf(n)) > 2) => pc = "failed"
        /\ (pc = "failed" /\ Res.kind = "Chain") =>
            LET c == Res.chain
            IN  /\ Len(c) >= 3
                /\ c[1] = c[Len(c)]
                /\ \A i, j \in 1..(Len(c) - 1) : i # j => c[i] # c[j]
                /\ \A i \in 1..(Len(c) - 1) :
                    c[i] \in DOMAIN palette /\ IsReference(c[i]) /\ palette[c[i]].base.name = c[i + 1]
        /\ (pc = "failed" /\ EndsInCycle(Unwrap(top)) /\ Len(CycleOf(Unwrap(top))) > 2) =>
            Res = ErrChain(CycleOf(Unwrap(top)))

\* C3 witness: a two-name cycle reported for a top-level entry that leads
\* into the cycle and is not part of it.
C3_Witness ==
    /\ pc = "failed" /\ Res.kind = "Chain"
    /\ Len(Res.chain) = 3
    /\ Unwrap(top) \notin Range(Res.chain)

\* C4: a palette with a reference to a name that is no key never resolves,
\* and when the walk from the failing top-level entry ends at such a name the
\* error is the missing-reference error naming exactly that name.
C4_Missing ==
    Finished =>
        /\ (\E n \in DOMAIN palette : IsReference(n) /\ palette[n].base.name \notin DOMAIN palette)
            => pc = "failed"
        /\ (pc = "failed" /\ EndsMissing(Unwrap(top))) =>
            Res = ErrMissing(Last(WalkFrom(Unwrap(top))))
        /\ (pc = "failed" /\ Res.kind = "Missing") =>
            /\ Res.name \notin DOMAIN palette
            /\ EndsMissing(Unwrap(top))

\* C4 witness: the missing name is reached through two entries, in a palette
\* that also refers to the other missing name.
C4_Witness ==
    /\ pc = "failed" /\ Res.kind = "Missing"
    /\ Len(deps) = 2
    /\ \E n \in DOMAIN palette :
        IsReference(n) /\ palette[n].base.name \in Dangling \ {Res.name}

\* C5: resolve terminates on every palette (every call finishes), and on the
\* way no name is pushed twice on the dependency stack and the recursion is
\* never deeper than the number of entries plus the call that detects a cycle.
C5_Terminates ==
    /\ [](\A i, j \in DOMAIN deps : i # j => deps[i] # deps[j])
    /\ [](Len(stack) <= Cardinality(DOMAIN palette) + 1)
    /\ <>(pc = "failed" \/ (pc = "resolved" /\ run = 2))

\* C5 witness: resolve finished on a palette whose three names form one cycle.
C5_Witness ==
    /\ pc = "failed" /\ Res.kind = "Chain"
    /\ Len(Res.chain) = 4

----------------------------------------------------------------------------
(* Claims about PaletteGenerator *)

LastOp == Unwrap(lastCall).op
LastColor == Unwrap(lastCall).color

C7_FirstNameKept ==
    [][/\ rgb_to_name \subseteq rgb_to_name'
       /\ (LastOp' = "feed" /\ ContainsLeft(rgb_to_name, Rgb(LastColor')))
            => rgb_to_name' = rgb_to_name]_vars

\* C7 witness: a named triple was fed again with another alpha, after a
\* triple with the same base name was named.
C7_Witness ==
    /\ IsSome(lastCall) /\ LastOp = "feed" /\ LastColor[4] # 255
    /\ calls = 3
    /\ rgb_to_name = {<<Red1, <<"r", "e", "d">> >>, <<Red2, <<"r", "e", "d", "-", "1">> >>}

\* C8: lookup(color) leaves rgb_to_name as it is and returns, when the RGB
\* triple of the color is named, a reference to that name whose only modifier
\* is alpha, set exactly when the alpha channel is not 255; and otherwise the
\* literal color with no modifier.
C8_Lookup ==
    [][LastOp' = "lookup" =>
        /\ rgb_to_name' = rgb_to_name
        /\ IsSome(returned')
        /\ LET c == Unwrap(returned')
               color == LastColor'
               held == {p \in rgb_to_name : p[1] = Rgb(color)}
           IN  IF held # {}
               THEN /\ c.base.kind = "PaletteReference"
                    /\ \E p \in held : c.base.name = p[2]
                    /\ IsSome(c.modifiers.alpha) <=> color[4] # 255
                    /\ [c.modifiers EXCEPT !.alpha = None] = NoModifiers
               ELSE /\ c.base.kind = "Hex"
                    /\ c.base.hex = color
                    /\ c.modifiers = NoModifiers]_vars

\* C8 witness: an opaque color and then a translucent color of named triples
\* were looked up, the last returning a reference with the alpha modifier.
C8_Witness ==
    /\ IsSome(lastCall) /\ LastOp = "lookup" /\ LastColor[4] = 128
    /\ IsSome(returned)
    /\ Unwrap(returned).base.kind = "PaletteReference"
    /\ Unwrap(returned).modifiers.alpha = Some(<<128, 255>>)

----------------------------------------------------------------------------
(* Claims about generate_json *)

\* generate_json is past its merge loop (lines 27-29).
Merged == pc \in {"themes", "modifiers"} \/ (pc = "done" /\ Res.kind = "Ok")

\* s is exactly the entries of front, in order, followed by those of back.
IsConcat(s, front, back) ==
    /\ Len(s) = Len(front) + Len(back)
    /\ \A i \in 1..Len(front) : s[i] = front[i]
    /\ \A i \in 1..Len(back) : s[Len(front) + i] = back[i]

\* C9: once generate_json has merged a family that has a common theme, every
\* theme's modifiers are the common theme's modifiers followed by the theme's
\* own previous modifiers, and its players the common theme's players
\* followed by its own previous players, in order with nothing dropped or
\* duplicated; the theme's name and appearance and the common theme itself
\* are as they were in the family.
C9_Merge ==
    (Merged /\ IsSome(family.common)) =>
        /\ common = family.common
        /\ Len(themes) = Len(family.themes)
        /\ \A i \in 1..Len(themes) :
            /\ IsConcat(themes[i].modifiers, Unwrap(family.common).modifiers,
                        family.themes[i].modifiers)
            /\ IsConcat(themes[i].players, Unwrap(family.common).players,
                        family.themes[i].players)
            /\ themes[i].name = family.themes[i].name
            /\ themes[i].appearance = family.themes[i].appearance

\* A merge in which the order matters: both the common theme and the theme
\* have modifiers and players, and they differ.
C9_Witness ==
    /\ Merged
    /\ IsSome(family.common)
    /\ Len(family.themes) = 2
    /\ Unwrap(family.common).modifiers # <<>>
    /\ Unwrap(family.common).players # <<>>
    /\ family.themes[1].modifiers # <<>>
    /\ family.themes[1].players # <<>>
    /\ Unwrap(family.common).modifiers[1] # family.themes[1].modifiers[1]
    /\ Unwrap(family.common).players[1] # family.themes[1].players[1]
    /\ themes[1].modifiers # family.themes[1].modifiers

\* The fields an action can set on a target: a Style key holds one color, a
\* Syntax scope holds all four.
FieldsOf(target) ==
    IF target.kind = "Style"
    THEN {"color"}
    ELSE {"color", "background", "font_weight", "font_style"}

\* The value a write gives to a field: a color is looked up in the resolved
\* palette, a font weight or style is taken as it is.
GivenValue(action, f) ==
    IF f \in {"color", "background"}
    THEN Some(ResolvedLookup(resolutions, Unwrap(action[f])).val)
    ELSE action[f]

\* The value of a field of a target in a compiled theme; None when absent.
Compiled(json_theme, target, f) ==
    IF target.kind = "Style"
    THEN IF target.path \in DOMAIN json_theme.style
            /\ json_theme.style[target.path].kind = "Normal"
         THEN json_theme.style[target.path].normal
         ELSE None
    ELSE IF json_theme.style[SyntaxKey].kind = "Syntax"
            /\ target.path \in DOMAIN json_theme.style[SyntaxKey].syntax
         THEN json_theme.style[SyntaxKey].syntax[target.path][f]
         ELSE None

\* The positions in a list of writes that set field f of target.
Setting(writes, target, f) ==
    {j \in 1..Len(writes) : writes[j].target = target /\ IsSome(writes[j].action[f])}

\* C10: in every family generate_json returns, for any theme whose merged
\* modifier list has two modifiers that set the same field of the same
\* target, the compiled value of that field is the one given by the later
\* of them.
C10_LaterWriteWins ==
    (pc = "done" /\ Unwrap(json).kind = "Ok") =>
        \A i \in 1..Len(themes) :
            LET writes == Writes(themes[i].modifiers)
            IN  \A j \in 1..Len(writes) : \A f \in FieldsOf(writes[j].target) :
                    LET setting == Setting(writes, writes[j].target, f)
                    IN  Cardinality(setting) >= 2 =>
                            Compiled(Unwrap(json).themes[i], writes[j].target, f)
                                = GivenValue(writes[Max(setting)].action, f)

\* The entry of a syntax scope in a theme under construction, as
\* process_syntax_path finds it: the stored entry, or a new empty one.
SyntaxEntryOf(json_theme, scope) ==
    IF scope \in DOMAIN json_theme.style[SyntaxKey].syntax
    THEN json_theme.style[SyntaxKey].syntax[scope]
    ELSE NewSyntax

\* The write generate_json applies next.
NextWrite == Writes(themes[ti + 1].modifiers)[wi + 1]

\* C11: every successful application of an action to a Syntax(name) target
\* overwrites exactly the fields among color, background, font_weight and
\* font_style that the action specifies; each field the action leaves unset
\* keeps the value earlier modifiers wrote on that scope.
C11_SyntaxFrame ==
    [][(pc = "modifiers" /\ wi' = wi + 1 /\ NextWrite.target.kind = "Syntax") =>
        \A f \in FieldsOf(NextWrite.target) :
            SyntaxEntryOf(Unwrap(base_json_theme'), NextWrite.target.path)[f]
                = IF IsSome(NextWrite.action[f])
                  THEN GivenValue(NextWrite.action, f)
                  ELSE SyntaxEntryOf(Unwrap(base_json_theme), NextWrite.target.path)[f]]_vars

\* A modifier list names a Style target in the reserved player namespace.
HasPlayerTarget(modifiers) ==
    \E j \in 1..Len(Writes(modifiers)) :
        /\ Writes(modifiers)[j].target.kind = "Style"
        /\ StartsWith(Writes(modifiers)[j].target.path, PlayerPrefix)

\* C12: when a theme of the family, or the common theme merged into it, has
\* a modifier with a Style target whose path starts with "player",
\* generate_json ends with an error and returns no family, whatever the
\* action sets and whatever was applied before it.
C12_PlayerPathRefused ==
    (pc = "done" /\
     \E i \in 1..Len(family.themes) :
        \/ HasPlayerTarget(family.themes[i].modifiers)
        \/ IsSome(family.common) /\ HasPlayerTarget(Unwrap(family.common).modifiers))
    => (Unwrap(json).kind = "Err" /\ Unwrap(json).themes = <<>>)

\* The run is refused at a player path whose action sets no color, after
\* earlier writes were applied.
C12_Witness ==
    /\ pc = "done"
    /\ Unwrap(json).kind = "Err"
    /\ Unwrap(json).error = ErrPlayerPath
    /\ wi > 0
    /\ NextWrite.action.color = None

\* generate_json returned an error of palette resolution or of a color lookup.
ResolutionOrLookupFailed ==
    /\ IsSome(json)
    /\ Unwrap(json).kind = "Err"
    /\ Unwrap(json).error.kind \in {"SelfCycle", "Chain", "Missing", "LookupMissing"}

\* C13: when palette resolution or a color lookup fails, generate_json
\* returns only the error and no family, the output file and the installed
\* file stay what they were before the command (absent when they were
\* absent), and the command does not return Ok.
C13_NothingWritten ==
    ResolutionOrLookupFailed =>
        /\ Unwrap(json).themes = <<>>
        /\ outfile = before[1]
        /\ installfile = before[2]
        /\ cmd # Some("Ok")

\* A lookup fails after part of a theme was built, the command has returned,
\* and the output file that did not exist still does not.
C13_Witness ==
    /\ pc = "exit"
    /\ ResolutionOrLookupFailed
    /\ Unwrap(json).error.kind = "LookupMissing"
    /\ wi > 0
    /\ before[1] = None
    /\ cmd = Some("Err")

----------------------------------------------------------------------------
(* Claims about generate_kdl and extract_common *)

\* generate_json's loop of lines 49-53 as one function: the writes applied
\* in order until one fails.
RECURSIVE ApplyWrites(_, _, _)
ApplyWrites(base, writes, colors) ==
    IF writes = <<>>
    THEN ROk(base)
    ELSE LET applied == apply_action(base, Head(writes).action, colors, Head(writes).target)
         IN  IF applied.ok THEN ApplyWrites(applied.val, Tail(writes), colors) ELSE applied

\* What generate_json makes of one merged theme under a resolved palette.
CompileTheme(colors, theme) ==
    LET players == ProcessPlayers(colors, theme.players)
    IN  IF players.ok
        THEN ApplyWrites(NewJsonTheme(theme, players.val), Writes(theme.modifiers), colors)
        ELSE players

\* What the family generate_kdl returned denotes for its i-th theme: the
\* palette holds literals only, so it resolves to itself.
Denoted(i) ==
    CompileTheme(kpalette,
                 IF IsSome(kcommon) THEN merge(kthemes[i], Unwrap(kcommon)) ELSE kthemes[i])

\* The players of a flat theme.
PlayersOf(json_theme) ==
    IF PlayersKey \in DOMAIN json_theme.style /\ json_theme.style[PlayersKey].kind = "Players"
    THEN json_theme.style[PlayersKey].players
    ELSE <<>>

\* Two flat themes have the same color at every observable path of the first:
\* the flat keys, the color and background of every syntax scope, the players.
SameColors(a, b) ==
    /\ \A key \in DOMAIN a.style :
        a.style[key].kind = "Normal" =>
            Compiled(a, Style(key), "color") = Compiled(b, Style(key), "color")
    /\ \A scope \in ScopesOf(a.style) : \A f \in {"color", "background"} :
        Compiled(a, Syntax(scope), f) = Compiled(b, Syntax(scope), f)
    /\ PlayersOf(a) = PlayersOf(b)

\* C14: for a family that compiled successfully, the family generate_kdl
\* makes of the compiled flat family denotes, theme by theme, the same
\* literal color at every observable style path as the flat family.
C14_RoundTrip ==
    (kpc = "returned") =>
        \A i \in 1..Len(flat) : Denoted(i).ok /\ SameColors(flat[i], Denoted(i).val)

\* A theme has a modifier with the action whose apply list contains the target.
Applies(theme, action, target) ==
    \E i \in DOMAIN theme.modifiers :
        theme.modifiers[i].action = action /\ target \in Range(theme.modifiers[i].apply)

\* C15: after extract_common on two themes, for every action and target that
\* both themes applied, the returned common theme has a modifier with the
\* action whose apply list contains the target, and neither theme applies
\* the action to the target any more; for any modifier lists, also with the
\* same action in several modifiers.
C15_CommonExtracted ==
    (kpc = "returned" /\ Len(translated) = 2 /\ IsSome(kcommon)) =>
        \A i \in DOMAIN translated[1].modifiers :
        \A target \in Range(translated[1].modifiers[i].apply) :
            LET action == translated[1].modifiers[i].action
            IN  Applies(translated[2], action, target) =>
                    /\ Applies(Unwrap(kcommon), action, target)
                    /\ ~Applies(kthemes[1], action, target)
                    /\ ~Applies(kthemes[2], action, target)

\* The paths of a flat theme at which decompilation observes a color, a font
\* style or a font weight.
ObservedTargets(json_theme) ==
    {Style(key) : key \in {k \in DOMAIN json_theme.style :
                            /\ json_theme.style[k].kind = "Normal"
                            /\ json_theme.style[k].normal # None}}
    \cup {Syntax(scope) : scope \in {sc \in ScopesOf(json_theme.style) :
                            json_theme.style[SyntaxKey].syntax[sc] # NewSyntax}}

\* The targets of the modifiers of a theme.
TargetsOf(theme) == UNION {Range(theme.modifiers[i].apply) : i \in DOMAIN theme.modifiers}

\* C16: generate_kdl on a flat family with 0, 1, or 3 or more themes returns
\* a family without a common theme whose themes are the decompiled themes
\* untouched: one per flat theme, with every player and every observed
\* target.
C16_ArityGuard ==
    (kpc = "returned" /\ Len(flat) # 2) =>
        /\ kcommon = None
        /\ kthemes = translated
        /\ Len(kthemes) = Len(flat)
        /\ \A i \in 1..Len(flat) :
            /\ Len(kthemes[i].players) = Len(PlayersOf(flat[i]))
            /\ TargetsOf(kthemes[i]) = ObservedTargets(flat[i])

\* Three themes, the first two alike (so that an extraction would have
\* emptied them), are returned with their players and modifiers.
C16_Witness ==
    /\ kpc = "returned"
    /\ Len(flat) = 3
    /\ flat[1] = flat[2]
    /\ kthemes[1].players # <<>>
    /\ kthemes[1].modifiers # <<>>

\* The synthesizer's reference for an optional flat color.
ReferenceFor(v) == LookupOpt(rgb_to_name, v)

\* C19: in every decompiled theme, each syntax scope with a background has a
\* modifier whose action sets background, and not color, to the reference
\* for that background and whose apply list contains the scope; and on a
\* syntax scope a color action carries the scope's color and a background
\* action the scope's background.
C19_GroupingsApart ==
    (kpc = "returned") =>
        \A i \in 1..Len(flat) :
            /\ \A scope \in ScopesOf(flat[i].style) :
                LET b == flat[i].style[SyntaxKey].syntax[scope].background
                IN  IsSome(b) =>
                        \E j \in DOMAIN translated[i].modifiers :
                            /\ translated[i].modifiers[j].action.background = ReferenceFor(b)
                            /\ translated[i].modifiers[j].action.color = None
                            /\ Syntax(scope) \in Range(translated[i].modifiers[j].apply)
            /\ \A j \in DOMAIN translated[i].modifiers :
               \A scope \in ScopesOf(flat[i].style) :
                LET action == translated[i].modifiers[j].action
                    syntax == flat[i].style[SyntaxKey].syntax[scope]
                IN  Syntax(scope) \in Range(translated[i].modifiers[j].apply) =>
                        /\ IsSome(action.color) => action.color = ReferenceFor(syntax.color)
                        /\ IsSome(action.background) =>
                                action.background = ReferenceFor(syntax.background)

\* No target occurs twice in the apply list of a modifier of the theme.
DuplicateFree(theme) ==
    \A i \in DOMAIN theme.modifiers :
        \A j, k \in DOMAIN theme.modifiers[i].apply :
            theme.modifiers[i].apply[j] = theme.modifiers[i].apply[k] => j = k

\* C20: every modifier generate_kdl returns, in each theme and in the common
\* theme, has a duplicate-free apply list.
C20_DuplicateFree ==
    (kpc = "returned") =>
        /\ \A i \in DOMAIN kthemes : DuplicateFree(kthemes[i])
        /\ IsSome(kcommon) => DuplicateFree(Unwrap(kcommon))

----------------------------------------------------------------------------
(* Claims about watch_cmd *)

\* C17: runs are serialized: at most one install run is in progress at any
\* time, and an event is taken from the queue only when no run is in
\* progress, whatever events arrive during a run.
C17_Serialized ==
    /\ [](active <= 1)
    /\ [][Len(queue') < Len(queue) => active = 0]_vars

\* Events, a close-after-write among them, have arrived while a run is
\* writing the output file.
C17_Witness ==
    /\ wpc = "write"
    /\ active = 1
    /\ Len(queue) >= 2
    /\ "CloseWrite" \in Range(queue)
    /\ runs = 2

\* C18: once a Remove event has been taken from the queue the loop has
\* terminated, and from then on no run starts, no event is taken and no file
\* is written, also with close-after-write events queued behind it.
C18_RemoveStops ==
    /\ [](removed => (wpc = "stopped" /\ active = 0))
    /\ [][wpc = "stopped" =>
            /\ wpc' = "stopped"
            /\ UNCHANGED <<runs, queue, outfile, installfile>>]_vars

\* The loop has stopped with a close-after-write event still in the queue,
\* after an earlier run.
C18_Witness ==
    /\ wpc = "stopped"
    /\ removed
    /\ queue # <<>>
    /\ Head(queue) = "CloseWrite"
    /\ runs = 1

----------------------------------------------------------------------------
(* More claims about Palette::resolve *)

\* The value the claim gives the entry n, from the values `resolved` holds:
\* the entry's modifiers applied to its literal base, or to the value of the
\* name it refers to.
ValueFrom(resolved, n) ==
    apply_modifiers(IF IsReference(n) THEN resolved[palette[n].base.name]
                    ELSE palette[n].base.hex,
                    palette[n].modifiers)

\* C22: when resolve succeeds the result has exactly the palette's names as
\* keys and each value is its entry's modifiers applied once to its literal
\* base or to the final value of the name it refers to; during the call a
\* name's value is inserted once, with that value, and never changed.
C22_ResolvedOnce ==
    /\ [](pc = "resolved" =>
            /\ Res.kind = "Ok"
            /\ DOMAIN Res.colors = DOMAIN palette
            /\ \A n \in DOMAIN palette : Res.colors[n] = ValueFrom(Res.colors, n))
    /\ [][(resolutions' # resolutions /\ resolutions' # EmptyMap) =>
            \E n \in DOMAIN palette \ DOMAIN resolutions :
                /\ IsReference(n) => palette[n].base.name \in DOMAIN resolutions
                /\ resolutions' = MapInsert(resolutions, n, ValueFrom(resolutions, n))]_vars

\* resolve returned Ok on a palette in which two entries with an alpha
\* modifier refer to the same third entry, which has an alpha modifier too.
C22_Witness ==
    /\ pc = "resolved"
    /\ \E n, m, r \in DOMAIN palette :
        /\ n # m /\ n # r /\ m # r
        /\ ~IsReference(r)
        /\ IsReference(n) /\ palette[n].base.name = r
        /\ IsReference(m) /\ palette[m].base.name = r
        /\ \A x \in {n, m, r} : IsSome(palette[x].modifiers.alpha)
        /\ Res.colors[r][4] = 85
        /\ Res.colors[n][4] = 28
        /\ Res.colors[m][4] = 28

\* C27: resolve never reports a false cycle: on a palette in which every
\* reference chain reaches a literal color no call of resolve_color finds its
\* name on the dependency stack and resolve does not fail, whatever the
\* order of the entries and whatever names were resolved earlier.
C27_NoFalseCycle ==
    WellFounded =>
        /\ pc # "failed"
        /\ (pc = "call" /\ Callee \notin DOMAIN resolutions) => Callee \notin Range(deps)
        /\ pc = "resolved" => Res.kind = "Ok"

\* A top-level entry's chain has reached a name resolved by an earlier
\* top-level entry, with the names of its own chain still on the dependency
\* stack, in a palette without cycles or dangling names.
C27_Witness ==
    /\ WellFounded
    /\ pc = "call"
    /\ Len(stack) = 2
    /\ Callee \in DOMAIN resolutions
    /\ deps # <<>>
    /\ Cardinality(DOMAIN resolutions) = 2

----------------------------------------------------------------------------
(* More claims about generate_kdl *)

PlayerFields == {"cursor", "background", "selection"}

\* The literal colors of a flat style map: of its flat keys, of its players
\* and of the color and background of its syntax scopes.
StyleColors(map) ==
    UNION {
        CASE map[k].kind = "Normal" -> Range(map[k].normal)
          [] map[k].kind = "Players" ->
                UNION {Range(map[k].players[i][f]) :
                            i \in DOMAIN map[k].players, f \in PlayerFields}
          [] map[k].kind = "Syntax" ->
                UNION {Range(map[k].syntax[sc].color) \cup Range(map[k].syntax[sc].background) :
                            sc \in DOMAIN map[k].syntax}
        : k \in DOMAIN map}

\* The pairs <<RGB triple, name given to it>> read off the translation of the
\* flat theme i: a player's color and the color at the same place of the
\* translated player, and the color of a flat key and the color of a modifier
\* that applies to that key.  A color translated to a literal gives the empty
\* name.
NamePairs(i) ==
    {<<Rgb(Unwrap(PlayersOf(flat[i])[kf[1]][kf[2]])),
       Unwrap(translated[i].players[kf[1]][kf[2]]).base.name>> :
        kf \in {kf \in (DOMAIN PlayersOf(flat[i])) \X PlayerFields :
                    IsSome(PlayersOf(flat[i])[kf[1]][kf[2]])}}
    \cup
    UNION {{<<Rgb(Unwrap(flat[i].style[key].normal)),
              Unwrap(translated[i].modifiers[j].action.color).base.name>> :
                j \in {j \in DOMAIN translated[i].modifiers :
                         /\ IsSome(translated[i].modifiers[j].action.color)
                         /\ Style(key) \in Range(translated[i].modifiers[j].apply)}} :
            key \in {key \in DOMAIN flat[i].style :
                        flat[i].style[key].kind = "Normal" /\ IsSome(flat[i].style[key].normal)}}

\* The players of the translation of the flat theme i stand where the flat
\* players stand and have a color where the flat players have one.
PlayersAligned(i) ==
    /\ Len(translated[i].players) = Len(PlayersOf(flat[i]))
    /\ \A k \in DOMAIN PlayersOf(flat[i]) : \A f \in PlayerFields :
            IsSome(translated[i].players[k][f]) = IsSome(PlayersOf(flat[i])[k][f])

\* C23: every literal color of every theme of the family has been fed to the
\* one synthesizer before any theme is translated, the name table does not
\* change from then on, and so one RGB triple has one palette name, the
\* table's, in every theme of the decompiled family.
C23_NamesStable ==
    /\ [](kpc = "translate" =>
            \A i \in DOMAIN flat : \A c \in StyleColors(flat[i].style) :
                ContainsLeft(rgb_to_name, Rgb(c)))
    /\ [][(kpc \in {"translate", "returned"}) => (rgb_to_name' = rgb_to_name)]_vars
    /\ [](kpc = "returned" =>
            /\ \A i \in DOMAIN flat : PlayersAligned(i)
            /\ LET pairs == UNION {NamePairs(i) : i \in DOMAIN flat}
               IN  /\ pairs \subseteq rgb_to_name
                   /\ \A p, q \in pairs : p[1] = q[1] => p[2] = q[2])

\* A family of three themes has been decompiled in which one RGB triple is
\* named in two themes, opaque in one and translucent in the other, and two
\* triples with the same base name have two names.
C23_Witness ==
    /\ kpc = "returned"
    /\ Len(flat) = 3
    /\ \E i, j \in DOMAIN flat : \E p \in NamePairs(i) :
        /\ i # j
        /\ p \in NamePairs(j)
        /\ p[1] = Red1
    /\ \E i, j \in DOMAIN flat : \E p \in NamePairs(i) : \E q \in NamePairs(j) :
        /\ p[1] = Red1 /\ q[1] = Red2
        /\ p[2] # q[2]

\* The colors of a decompiled theme: of its players and of the actions of its
\* modifiers.
ThemeColors(theme) ==
    UNION {Range(theme.players[k][f]) : k \in DOMAIN theme.players, f \in PlayerFields}
    \cup UNION {Range(theme.modifiers[j].action.color)
                \cup Range(theme.modifiers[j].action.background) :
                    j \in DOMAIN theme.modifiers}

\* The themes of the family generate_kdl returned, the common theme included.
EmittedThemes == Range(kthemes) \cup Range(kcommon)

\* C29: in the family generate_kdl returns every color of the players and of
\* the modifier actions of every theme and of the common theme is a
\* PaletteReference to a name of the emitted palette, every palette entry is
\* an opaque literal, and looking up any emitted color in the palette succeeds.
C29_NoDanglingColors ==
    (kpc = "returned") =>
        /\ \A n \in DOMAIN kpalette : kpalette[n][4] = 255
        /\ \A t \in EmittedThemes : \A c \in ThemeColors(t) :
            /\ c.base.kind = "PaletteReference"
            /\ c.base.name \in DOMAIN kpalette
            /\ ResolvedLookup(kpalette, c).ok

\* A family of two themes has been decompiled whose themes and common theme
\* all hold colors, among them a translucent one and a player's.
C29_Witness ==
    /\ kpc = "returned"
    /\ IsSome(kcommon)
    /\ ThemeColors(Unwrap(kcommon)) # {}
    /\ \A i \in DOMAIN kthemes : ThemeColors(kthemes[i]) # {}
    /\ \E t \in EmittedThemes : t.players # <<>>
    /\ \E t \in EmittedThemes : \E c \in ThemeColors(t) : IsSome(c.modifiers.alpha)
    /\ \E i \in DOMAIN flat : \E c \in StyleColors(flat[i].style) : c[4] # 255

----------------------------------------------------------------------------
(* More claims about Theme::extract_common *)

\* C24: extract_common takes players by full value equality: the players of
\* the returned common theme are the players of the first theme that equal
\* a player of the second, each theme keeps no player equal to a player of
\* the common theme, and the players found in one theme only stay in that
\* theme in their original relative order.
C24_PlayersByValue ==
    (kpc = "returned" /\ Len(translated) = 2 /\ IsSome(kcommon)) =>
        LET both == Unwrap(kcommon).players
            one == translated[1].players
            two == translated[2].players
        IN  /\ Range(both) = Range(one) \cap Range(two)
            /\ Range(kthemes[1].players) \cap Range(both) = {}
            /\ Range(kthemes[2].players) \cap Range(both) = {}
            /\ kthemes[1].players = SelectSeq(one, LAMBDA x : x \notin Range(two))
            /\ kthemes[2].players = SelectSeq(two, LAMBDA x : x \notin Range(one))

\* extract_common returned on two themes that share a player, where the
\* first theme has it twice and also holds, before and after it, two players
\* the second theme lacks, one of which differs from the shared player in one
\* modifier only.
C24_Witness ==
    /\ kpc = "returned" /\ Len(translated) = 2 /\ IsSome(kcommon)
    /\ translated[1].players = <<Player3, Player1, Player2>>
    /\ translated[2].players = <<Player1, Player1>>
    /\ kthemes[1].players = <<Player3, Player2>>
    /\ kthemes[2].players = <<>>

----------------------------------------------------------------------------
(* More claims about generate_json *)

\* C25: in every family generate_json returns successfully each theme's
\* style maps the key "players" to a players list and the key "syntax" to a
\* syntax map, whatever targets the theme's modifiers name.
C25_StyleShape ==
    (pc = "done" /\ IsSome(json) /\ Unwrap(json).kind = "Ok") =>
        \A i \in DOMAIN Unwrap(json).themes :
            LET style == Unwrap(json).themes[i].style
            IN  /\ PlayersKey \in DOMAIN style
                /\ style[PlayersKey].kind = "Players"
                /\ SyntaxKey \in DOMAIN style
                /\ style[SyntaxKey].kind = "Syntax"

\* A resolved palette with the names the themes given to extract_common use.
ExtractColors ==
    (<<"r", "e", "d">> :> OpaqueRed) @@ (NameA :> OpaqueGray) @@ (NameB :> OtherRed)

\* The i-th theme as it was before extract_common, compiled without a common
\* theme, and as extract_common left it, compiled with the common theme.
CompiledBefore(i) == CompileTheme(ExtractColors, translated[i])
CompiledAfter(i) == CompileTheme(ExtractColors, merge(kthemes[i], Unwrap(kcommon)))

\* C26: common extraction preserves meaning: for two themes that compile,
\* the themes as left by extract_common, compiled with the returned common
\* theme, give the same style (the players in the same order, every flat
\* color, every field of every syntax entry) as the two themes compiled
\* without a common theme.
C26_ExtractionPreserves ==
    (kpc = "returned" /\ Len(translated) = 2 /\ IsSome(kcommon)) =>
        \A i \in 1..2 :
            CompiledBefore(i).ok =>
                /\ CompiledAfter(i).ok
                /\ CompiledAfter(i).val.style = CompiledBefore(i).val.style

----------------------------------------------------------------------------
(* More claims about watch_cmd *)

\* The loop takes the event at the head of the queue in this step.
Takes(event) == queue # <<>> /\ Head(queue) = event /\ queue' = Tail(queue)

\* C28: a failed run or an error delivered by the watcher does not end the
\* watch loop: the loop stops only on a Remove event, a run that ends, failed
\* or not, leaves the loop at the channel, where an event that is queued can
\* be taken, and every close-after-write event taken starts a run; no other
\* kind of event starts a run.
C28_LoopGoesOn ==
    /\ [](wpc = "stopped" => removed)
    /\ []((wpc = "recv" /\ queue # <<>>) =>
            ENABLED (WatchContinue \/ WatchInstall \/ WatchRemove))
    /\ [][active' < active => (wpc' = "recv" /\ IsSome(cmd'))]_vars
    /\ [][Takes("Err") => (wpc' = "recv" /\ runs' = runs)]_vars
    /\ [][Takes("CloseWrite") => (runs' = runs + 1 /\ active' = 1)]_vars
    /\ [][runs' # runs => Takes("CloseWrite")]_vars

\* A second run has started after the first run failed, and a third event,
\* which started no run, was taken as well.
C28_Witness ==
    /\ wpc = "generate"
    /\ runs = 2
    /\ cmd = Some("Err")
    /\ sent = 3
    /\ queue = <<>>
    /\ ~removed

----------------------------------------------------------------------------
(* Decompiling and compiling again *)

\* C30: decompiling a flat family and compiling the result again keeps the
\* font attributes: at every syntax scope of every theme the compiled family
\* has the font_weight and the font_style the flat family had.
C30_FontsKept ==
    (kpc = "returned") =>
        \A i \in DOMAIN flat :
            /\ Denoted(i).ok
            /\ \A scope \in ScopesOf(flat[i].style) :
                /\ SyntaxEntryOf(Denoted(i).val, scope).font_weight
                        = flat[i].style[SyntaxKey].syntax[scope].font_weight
                /\ SyntaxEntryOf(Denoted(i).val, scope).font_style
                        = flat[i].style[SyntaxKey].syntax[scope].font_style

====
